---- MODULE Spec2Model ----
(***************************************************************************)
(* A model of the graph IR (compiler/graph.cc, compiler/value.cc) and of   *)
(* the XCVM emitter (compiler/xcvm/emitter.cc).                            *)
(*                                                                         *)
(* Pointers to values, nodes and graphs are indices into the arenas of a    *)
(* "world" record: world.values, world.nodes, world.graphs.  The null      *)
(* pointer is 0.  Instruction indices and jump targets are 0-based as in   *)
(* the code: instruction k of the program is prog[k + 1].                  *)
(***************************************************************************)
EXTENDS Integers, Sequences, FiniteSets, TLC

VARIABLES
    world,         \* the graphs handed to the emitter (values, nodes, graphs)
                   \* and the process-wide flags it reads
    rt,            \* run-time feed of the top-level inputs: name -> integer
    em,            \* the XCVMEmitter object and the XCProgramProto it fills
    vm,            \* the machine running the emitted program
    sorted_nodes,  \* last result of Graph::GetTopologicallySortedNodes
    xgraph,        \* the onnx::GraphProto a graph is constructed from
    answer         \* what the last other call on the graph returned

vars == <<world, rt, em, vm, sorted_nodes, xgraph, answer>>

(***************************************************************************)
(* Bounds of the model.                                                    *)
(***************************************************************************)
MaxTrip == 3       \* largest run-time value fed to a max_trip_count input
MaxVal == 1        \* largest run-time value fed to any other input
MaxSteps == 1500   \* the machine is cut off after this many instructions

(***************************************************************************)
(* Small helpers on sequences.                                             *)
(***************************************************************************)
Range(q) == {q[i] : i \in DOMAIN q}

SeqsUpTo(S, n) == UNION {[1..k -> S] : k \in 0..n}

\* a node added without attributes
NoAttrs == [x \in {} |-> 0]

Max(a, b) == IF a >= b THEN a ELSE b

Count(q, x) == Cardinality({i \in DOMAIN q : q[i] = x})

Last(q) == q[Len(q)]

\* Body applied to the value of v: v is computed once, as an assignment to
\* a local variable computes its right-hand side once
Let(v, Body(_)) == CHOOSE r \in {Body(b) : b \in {v}} : TRUE

RECURSIVE ForEach(_, _, _, _)
\* a for loop over q[i..]: acc := Op(acc, q[i])
ForEach(Op(_, _), acc, q, i) ==
    Let(acc, LAMBDA a : IF i > Len(q) THEN a ELSE ForEach(Op, Op(a, q[i]), q, i + 1))

(***************************************************************************)
(* Value (compiler/value.cc).  Kind is a bit mask; the set of its bits is  *)
(* modelled, kTemp being the empty mask.                                   *)
(***************************************************************************)
kTemp == {}
kInput == {"Input"}
kOutput == {"Output"}
kNull == {"Null"}

\* Value::Value(name, type, kind): an empty name adds the Null bit.
NewValue(name, kind) ==
    [name |-> name,
     kind |-> IF name = "" THEN kind \cup kNull ELSE kind,
     users |-> <<>>,
     producer |-> 0,
     initializer |-> 0,
     type_kind |-> "Tensor"]

IsNull(W, v) == "Null" \in W.values[v].kind
IsInput(W, v) == "Input" \in W.values[v].kind
IsTemp(W, v) == W.values[v].kind = kTemp

\* Value::set_type with a type of kind Opaque
SetOpaque(W, v) == [W EXCEPT !.values[v].type_kind = "Opaque"]

\* a node entering the users once however often it reads the value
AddUser_Once(val, inputs, v, n) ==
    [val EXCEPT !.users = @ \o (IF v \in Range(inputs) THEN <<n>> ELSE <<>>)]

\* Value::AddUser for every occurrence of v among the inputs of node n.
AddUser(val, inputs, v, n) ==
    [val EXCEPT !.users = @ \o [i \in 1..Count(inputs, v) |-> n]]

\* Value::SetProducer
SetProducer(val, n) == [val EXCEPT !.producer = n]

\* Value::DetachUser: erase the first occurrence of node n among the users
\* (the CHECK that there is one is the caller's guard)
DetachUser(val, n) ==
    LET at == CHOOSE i \in DOMAIN val.users :
                  val.users[i] = n /\ \A j \in 1..(i - 1) : val.users[j] # n
    IN [val EXCEPT !.users = SubSeq(@, 1, at - 1) \o SubSeq(@, at + 1, Len(@))]

(***************************************************************************)
(* Node: the fields the graph and the emitter read.                        *)
(***************************************************************************)
NoTensor == [dtype |-> "none", dims |-> <<>>, data |-> <<>>]

NewNode(op_type, inputs, outputs) ==
    [op_type |-> op_type,
     inputs |-> inputs,
     outputs |-> outputs,
     onikux_order |-> -1,
     detached |-> FALSE,
     then_branch |-> 0,
     else_branch |-> 0,
     body |-> 0,
     subgraph |-> 0,
     fusion_type |-> "",
     kernel_shape |-> <<>>,
     tensor_value |-> NoTensor]

\* Node::GetNumActualInputs: the number of non-null inputs.
GetNumActualInputs(W, n) ==
    Cardinality({i \in DOMAIN W.nodes[n].inputs : ~IsNull(W, W.nodes[n].inputs[i])})

(***************************************************************************)
(* Graph (compiler/graph.cc): construction.                                *)
(***************************************************************************)
\* g_use_tvm and g_use_nvrtc are zero-initialised globals (compiler/flags.cc).
EmptyWorld ==
    [values |-> <<>>, nodes |-> <<>>, graphs |-> <<>>, tensors |-> <<>>,
     g_use_tvm |-> FALSE, g_use_nvrtc |-> FALSE]

\* Graph::Graph(name)
NewGraph(W, name) ==
    [W EXCEPT !.graphs = Append(@,
        [name |-> name, all_values |-> <<>>, input_values |-> <<>>,
         output_values |-> <<>>, temp_values |-> <<>>, nodes |-> <<>>])]

\* Graph::AddInputValue
AddInputValue(W, g, name) ==
    Let(W, LAMBDA w :
        LET v == Len(w.values) + 1
        IN [w EXCEPT !.values = Append(@, NewValue(name, kInput)),
                     !.graphs[g].all_values = Append(@, v),
                     !.graphs[g].input_values = Append(@, v)])

\* Graph::AddOutputValue
AddOutputValue(W, g, name) ==
    Let(W, LAMBDA w :
        LET v == Len(w.values) + 1
        IN [w EXCEPT !.values = Append(@, NewValue(name, kOutput)),
                     !.graphs[g].all_values = Append(@, v),
                     !.graphs[g].output_values = Append(@, v)])

\* Graph::AddValue(name, kind) for kind Temp: an empty name gives a Null
\* value, which enters no list but all_values.
AddValue(W, g, name) ==
    Let(W, LAMBDA w :
        LET v == Len(w.values) + 1
            kind == IF name = "" THEN kNull ELSE kTemp
        IN [w EXCEPT !.values = Append(@, NewValue(name, kind)),
                     !.graphs[g].all_values = Append(@, v),
                     !.graphs[g].temp_values =
                         IF kind = kTemp THEN Append(@, v) ELSE @])

\* Graph::AddNullValue
AddNullValue(W, g) == AddValue(W, g, "")

\* Graph::AddNodeImpl: wire the users and the producers, then store.
AddNodeImpl(W, g, node) ==
    Let(W, LAMBDA w :
        LET n == Len(w.nodes) + 1
            wired == [v \in DOMAIN w.values |->
                         LET u == AddUser(w.values[v], node.inputs, v, n)
                         IN IF v \in Range(node.outputs) THEN SetProducer(u, n) ELSE u]
        IN [w EXCEPT !.values = wired,
                     !.nodes = Append(@, node),
                     !.graphs[g].nodes = Append(@, n)])

\* Graph::AddNode; attrs are the attributes set on the new node afterwards
\* (its schedule rank, its subgraphs, its tensor).
AddNode(W, g, op_type, inputs, outputs, attrs) ==
    AddNodeImpl(W, g, attrs @@ NewNode(op_type, inputs, outputs))

\* Graph::GetLiveNodes
GetLiveNodes(W, g) ==
    SelectSeq(W.graphs[g].nodes, LAMBDA n : ~W.nodes[n].detached)

\* Node::Detach: the node leaves the users of its inputs, once per
\* occurrence, and the producer of its outputs, and is marked detached.
Detach(W, n) ==
    LET nd == W.nodes[n]
        left == ForEach(LAMBDA vals, v : [vals EXCEPT ![v] = DetachUser(@, n)],
                        W.values, nd.inputs, 1)
    IN [W EXCEPT !.values = [v \in DOMAIN left |->
                                IF v \in Range(nd.outputs) /\ left[v].producer = n
                                THEN SetProducer(left[v], 0) ELSE left[v]],
                 !.nodes[n].detached = TRUE]

\* Graph::DetachNode
DetachNode(W, n) == Detach(W, n)

\* the queue of GetTopologicallySortedNodes after the outputs of the nodes
\* without actual inputs have been pushed; the loop of lines 218-224 walks
\* a std::map keyed by node address: by_address lists, in that order, the
\* nodes it finds without actual inputs
SeedQueue(W, q, input_counts, by_address) ==
    ForEach(LAMBDA acc, n : IF input_counts[n] = 0 THEN acc \o W.nodes[n].outputs ELSE acc,
            q, by_address, 1)

\* lines 230-239: the users of the dequeued value v count one input down;
\* a user that reaches zero is appended and its outputs are enqueued
VisitUsers(W, st, v) ==
    ForEach(LAMBDA a, node :
            IF a.failed THEN a
            ELSE IF node \notin DOMAIN a.input_counts THEN [a EXCEPT !.failed = TRUE]
            ELSE LET left == a.input_counts[node] - 1
                     a1 == [a EXCEPT !.input_counts[node] = left]
                 IN IF left = 0
                    THEN [a1 EXCEPT !.sorted_nodes = Append(@, node),
                                    !.q = @ \o W.nodes[node].outputs]
                    ELSE a1,
            st, W.values[v].users, 1)

RECURSIVE DrainQueue(_, _)
\* the while loop of lines 227-240
DrainQueue(W, st) ==
    Let(st, LAMBDA t :
        IF t.q = <<>> \/ t.failed THEN t
        ELSE DrainQueue(W, VisitUsers(W, [t EXCEPT !.q = Tail(@)], Head(t.q))))

\* Graph::GetTopologicallySortedNodes; by_address lists the live nodes
\* without actual inputs in the order of their addresses
GetTopologicallySortedNodes(W, g, by_address) ==
    LET live == GetLiveNodes(W, g)
        input_counts == [n \in Range(live) |-> GetNumActualInputs(W, n)]
        q == SeedQueue(W, W.graphs[g].input_values, input_counts, by_address)
    IN Let(DrainQueue(W, [q |-> q, input_counts |-> input_counts,
                          sorted_nodes |-> <<>>, failed |-> FALSE]),
           LAMBDA st : [done |-> TRUE, failed |-> st.failed, nodes |-> st.sorted_nodes])

\* lines 260-272: what the visit of node pushes: the producer of every
\* input, and the users without outputs of every input and every output
NecessaryPushes(W, node) ==
    LET Sinks(v) == SelectSeq(W.values[v].users, LAMBDA u : W.nodes[u].outputs = <<>>)
        of_inputs == ForEach(LAMBDA acc, input :
                                 acc \o <<W.values[input].producer>> \o Sinks(input),
                             <<>>, W.nodes[node].inputs, 1)
    IN ForEach(LAMBDA acc, output : acc \o Sinks(output),
               of_inputs, W.nodes[node].outputs, 1)

RECURSIVE NecessaryDrain(_, _)
\* the while loop of lines 255-273 (0 is the producer a value does not have)
NecessaryDrain(W, st) ==
    Let(st, LAMBDA t :
        IF t.q = <<>> THEN t.input_counts
        ELSE LET node == Head(t.q)
             IN IF node = 0 \/ node \in DOMAIN t.input_counts
                THEN NecessaryDrain(W, [t EXCEPT !.q = Tail(@)])
                ELSE NecessaryDrain(W,
                         [q |-> Tail(t.q) \o NecessaryPushes(W, node),
                          input_counts |->
                              (node :> GetNumActualInputs(W, node)) @@ t.input_counts]))

\* Graph::GetNecessaryNodesAndInputCounts
GetNecessaryNodesAndInputCounts(W, g, output_values) ==
    NecessaryDrain(W,
        [q |-> [i \in DOMAIN output_values |-> W.values[output_values[i]].producer]
               \o SelectSeq(W.graphs[g].nodes,
                            LAMBDA n : W.nodes[n].op_type = "OnikuxBackpropStackPush"),
         input_counts |-> <<>>])

RECURSIVE NecessaryValuesDrain(_, _)
\* the while loop of lines 132-142: st.q is the queue, st.seen_values the set
NecessaryValuesDrain(W, st) ==
    Let(st, LAMBDA t :
        IF t.q = <<>> THEN t.seen_values
        ELSE LET value == Head(t.q)
                 node == W.values[value].producer
             IN IF node = 0 THEN NecessaryValuesDrain(W, [t EXCEPT !.q = Tail(@)])
                ELSE NecessaryValuesDrain(W,
                         ForEach(LAMBDA acc, input :
                                     IF input \in acc.seen_values THEN acc
                                     ELSE [q |-> Append(acc.q, input),
                                           seen_values |-> acc.seen_values \cup {input}],
                                 [t EXCEPT !.q = Tail(@)], W.nodes[node].inputs, 1)))

\* Graph::GetNecessaryValues(output_values)
GetNecessaryValues(W, output_values) ==
    NecessaryValuesDrain(W, [q |-> output_values, seen_values |-> {}])

(***************************************************************************)
(* The program under construction (XCProgramProto) and the emitter.        *)
(* An instruction has the registers it writes (outputs), its operands      *)
(* (inputs: registers and immediates, in the order the builder takes       *)
(* them), the id FillOpInfo stamps and its debug_info: the node the        *)
(* instruction was emitted for and the source line after "@".              *)
(***************************************************************************)
R(id) == [k |-> "reg", v |-> id]
I(n) == [k |-> "int", v |-> n]

Inst(op, outputs, inputs) ==
    [op |-> op, outputs |-> outputs, inputs |-> inputs,
     name |-> "", id |-> -1, node |-> 0, line |-> 0]

\* the register operands an instruction reads (-1 encodes an absent slot)
RegInputs(inst) ==
    {inst.inputs[i].v : i \in {j \in DOMAIN inst.inputs : inst.inputs[j].k = "reg"}} \ {-1}

RegOutputs(inst) == Range(inst.outputs) \ {-1}

\* XCVMEmitter::XCVMEmitter, with an empty program.  if_sites and
\* loop_sites record the local variables of EmitIfImpl and EmitLoopImpl
\* (branch_jmp, done_jmp, skip_loop_jmp, loop_begin, ...).
NewEmitter ==
    [prog |-> <<>>,
     next_value_id |-> 1,
     value_ids |-> <<>>,
     stack_ids |-> <<>>,
     emitted |-> {},
     failed |-> FALSE,
     phase |-> "new",
     if_sites |-> <<>>,
     loop_sites |-> <<>>,
     users_left |-> <<>>]

\* A failed CHECK aborts the session: the emitter does nothing more.
Fail(s) == [s EXCEPT !.failed = TRUE]

\* what a failed GetValueId stands for in an operand list
BadId == 0

instructions_size(s) == Len(s.prog)

\* Add<Op>Op(prog, ...): the operands are evaluated first, and a failed
\* CHECK among them aborts before anything is appended.
AddOp(s, inst) ==
    Let(s, LAMBDA e :
        IF e.failed THEN e
        ELSE IF BadId \in (RegInputs(inst) \cup RegOutputs(inst)) THEN Fail(e)
        ELSE [e EXCEPT !.prog = Append(@, inst)])

\* XCVMEmitter::GetValueId
GetValueId(W, s, v) ==
    IF W.values[v].name = "" THEN BadId
    ELSE IF v \notin DOMAIN s.value_ids THEN BadId
    ELSE s.value_ids[v]

\* the FREE macro
FREE(s, id, line) == AddOp(s, [Inst("Free", <<>>, <<R(id)>>) EXCEPT !.line = line])

\* EMIT of EmitNode, EmitIfImpl and EmitFusionGroup: FillOpInfo stamps
\* the node's onikux_order and its name.
EMIT(s, W, n, op, outputs, inputs, line) ==
    AddOp(s, [Inst(op, outputs, inputs) EXCEPT
                 !.id = W.nodes[n].onikux_order, !.node = n, !.line = line])

\* EMIT of EmitLoopImpl: only the debug_info is set.
LEMIT(s, n, op, outputs, inputs, line) ==
    AddOp(s, [Inst(op, outputs, inputs) EXCEPT !.node = n, !.line = line])

\* MOVE releasing the source before it copies it
MOVE_FreeFirst(s, W, n, dst, src, line) ==
    EMIT(FREE(s, src, line), W, n, "Identity", <<dst>>, <<R(src)>>, line)

\* MOVE(dst, src) inside EmitIfImpl and EmitFusionGroup
MOVE(s, W, n, dst, src, line) ==
    FREE(EMIT(s, W, n, "Identity", <<dst>>, <<R(src)>>, line), src, line)

\* MOVE(dst, src) inside EmitLoopImpl
LMOVE(s, n, dst, src, line) ==
    FREE(LEMIT(s, n, "Identity", <<dst>>, <<R(src)>>, line), src, line)

\* whether the session carried by acc (an emitter, or the local state of a
\* function around one, in field s) has aborted
Aborted(acc) == IF "s" \in DOMAIN acc THEN acc.s.failed ELSE acc.failed

RECURSIVE Fold(_, _, _, _)
\* a for loop over q[i..]: acc := Op(acc, q[i]); nothing runs after an abort
Fold(Op(_, _), acc, q, i) ==
    Let(acc, LAMBDA a :
        IF i > Len(q) \/ Aborted(a) THEN a ELSE Fold(Op, Op(a, q[i]), q, i + 1))

\* the emplace without the increment: the next value is offered the same id
AssignOne_Reuse(W, s, v, skip_empty) ==
    IF s.failed THEN s
    ELSE LET fresh == v \notin DOMAIN s.value_ids
             s1 == [s EXCEPT !.value_ids = IF fresh THEN (v :> s.next_value_id) @@ @ ELSE @]
         IN IF fresh \/ (skip_empty /\ W.values[v].name = "") THEN s1 ELSE Fail(s1)

\* value_ids_.emplace(v, next_value_id_++): the id is consumed whether or
\* not v had one; the CHECK tolerates a repeat only where skip_empty holds
\* and the name is empty.
AssignOne(W, s, v, skip_empty) ==
    IF s.failed THEN s
    ELSE LET fresh == v \notin DOMAIN s.value_ids
             s1 == [s EXCEPT !.value_ids = IF fresh THEN (v :> s.next_value_id) @@ @ ELSE @,
                             !.next_value_id = @ + 1]
         IN IF fresh \/ (skip_empty /\ W.values[v].name = "") THEN s1 ELSE Fail(s1)

\* XCVMEmitter::AssignValueIds(const Graph&)
AssignValueIds(W, s, g) ==
    Let(Fold(LAMBDA a, v : AssignOne(W, a, v, FALSE), s, W.graphs[g].input_values, 1),
        LAMBDA s1 :
    Let(Fold(LAMBDA a, v : AssignOne(W, a, v, FALSE), s1, W.graphs[g].temp_values, 1),
        LAMBDA s2 :
    Fold(LAMBDA a, v : AssignOne(W, a, v, TRUE), s2, W.graphs[g].output_values, 1)))

\* Graph::GetComputationSequence: the scheduled nodes by ascending
\* onikux_order (equal ranks, which a schedule does not produce, are kept
\* in storage order).
GetComputationSequence(W, g) ==
    LET sched == {n \in Range(W.graphs[g].nodes) : W.nodes[n].onikux_order >= 0}
        Less(a, b) == \/ W.nodes[a].onikux_order < W.nodes[b].onikux_order
                      \/ /\ W.nodes[a].onikux_order = W.nodes[b].onikux_order
                         /\ a < b
    IN [k \in 1..Cardinality(sched) |->
           CHOOSE n \in sched : Cardinality({m \in sched : Less(m, n)}) = k - 1]

\* the lambdas in, oin, out, oout of EmitNode (i is 0-based)
node_in(W, s, n, i) ==
    LET ins == W.nodes[n].inputs
    IN IF i >= Len(ins) THEN BadId
       ELSE IF IsNull(W, ins[i + 1]) THEN BadId
       ELSE GetValueId(W, s, ins[i + 1])

node_oin(W, s, n, i) ==
    LET ins == W.nodes[n].inputs
    IN IF i >= Len(ins) THEN -1
       ELSE IF IsNull(W, ins[i + 1]) THEN -1
       ELSE node_in(W, s, n, i)

node_out(W, s, n, i) ==
    LET outs == W.nodes[n].outputs
    IN IF i >= Len(outs) THEN BadId
       ELSE IF IsNull(W, outs[i + 1]) THEN BadId
       ELSE GetValueId(W, s, outs[i + 1])

node_oout(W, s, n, i) ==
    LET outs == W.nodes[n].outputs
    IN IF i >= Len(outs) THEN -1
       ELSE IF IsNull(W, outs[i + 1]) THEN -1
       ELSE node_out(W, s, n, i)

SimpleUnaryOps == {"Neg", "Not", "Identity", "Relu", "Exp"}
SimpleBinaryOps == {"Add", "Sub", "Mul", "Greater", "Equal"}

\* EMIT_SIMPLE_UNARY_OP
EmitSimpleUnaryOp(W, s, n) ==
    IF Len(W.nodes[n].inputs) # 1 \/ Len(W.nodes[n].outputs) # 1 THEN Fail(s)
    ELSE EMIT(s, W, n, W.nodes[n].op_type, <<node_out(W, s, n, 0)>>,
              <<R(node_in(W, s, n, 0))>>, 0)

\* EMIT_SIMPLE_BINARY_OP
EmitSimpleBinaryOp(W, s, n) ==
    IF Len(W.nodes[n].inputs) # 2 \/ Len(W.nodes[n].outputs) # 1 THEN Fail(s)
    ELSE EMIT(s, W, n, W.nodes[n].op_type, <<node_out(W, s, n, 0)>>,
              <<R(node_in(W, s, n, 0)), R(node_in(W, s, n, 1))>>, 0)

\* Dtype::IsFloat and Dtype::SizeOf for the dtypes of the model
IsFloat(dtype) == dtype \in {"float32", "float64"}

\* An int64_t is kept as two limbs, d = hi * 2^16 + lo with 0 <= lo < 2^16,
\* so that values of 2^31 and more can be written down.
Int64(hi, lo) == [hi |-> hi, lo |-> lo]

\* the int64_t of a value that fits an int
FromInt(i) == Int64(i \div 65536, i % 65536)

\* the conversion of an int64_t to int: the low 32 bits, read as signed
ToInt(d) ==
    LET h == d.hi % 65536
    IN (IF h >= 32768 THEN h - 65536 ELSE h) * 65536 + d.lo

\* IntVector: std::vector<int>{ints.begin(), ints.end()}
IntVector(ints) == [i \in DOMAIN ints |-> ToInt(ints[i])]

\* CHECK_LE(0, d)
NonNegative(d) == d.hi >= 0

\* CHECK_GT(1ULL << 32ULL, d)
BelowTwoTo32(d) == d.hi < 65536

\* XCVMEmitter::EmitConstantImpl: a dimension is checked, then narrowed to
\* int; a scalar becomes a ScalarConstant, anything else a Constant whose
\* operands are the data and then the shape.
EmitConstantImpl(W, s, n, value, out, host) ==
    IF \E i \in DOMAIN value.dims :
           ~(NonNegative(value.dims[i]) /\ BelowTwoTo32(value.dims[i]))
    THEN Fail(s)
    ELSE IF value.dtype = "none" THEN Fail(s)
    ELSE LET data == [i \in DOMAIN value.data |-> I(value.data[i])]
             shape == [i \in DOMAIN value.dims |-> I(ToInt(value.dims[i]))]
         IN IF IsFloat(value.dtype)
            THEN IF value.dims = <<>>
                 THEN EMIT(s, W, n, "FloatScalarConstant", <<out>>,
                           <<data[1], I(IF host THEN 1 ELSE 0)>>, 0)
                 ELSE EMIT(s, W, n, "FloatConstant", <<out>>,
                           data \o shape \o <<I(IF host THEN 1 ELSE 0)>>, 0)
            ELSE IF value.dims = <<>>
                 THEN EMIT(s, W, n, "IntScalarConstant", <<out>>, <<data[1], I(1)>>, 0)
                 ELSE EMIT(s, W, n, "IntConstant", <<out>>,
                           data \o shape \o <<I(IF value.dtype = "int64" THEN 1 ELSE 0)>>, 0)

\* XCVMEmitter::EmitConstant
EmitConstant(W, s, n) ==
    IF Len(W.nodes[n].outputs) # 1 THEN Fail(s)
    ELSE EmitConstantImpl(W, s, n, W.nodes[n].tensor_value,
                          GetValueId(W, s, W.nodes[n].outputs[1]), FALSE)

Idx(k) == [i \in 1..k |-> i]

\* the lowering that moves the sequence whoever else reads it
EmitSequenceAppend_AlwaysMove(W, s, n) ==
    Let(EMIT(s, W, n, "SequenceMove", <<node_out(W, s, n, 0)>>, <<R(node_in(W, s, n, 0))>>, 568),
        LAMBDA s1 :
    EMIT(s1, W, n, "SequenceAppend", <<>>,
         <<R(node_out(W, s1, n, 0)), R(node_in(W, s1, n, 1))>>, 569))

\* EmitNode, OnikuxSequenceAppend (lines 565-573): the sequence is moved
\* when the node is its only user, and copied otherwise
EmitSequenceAppend(W, s, n) ==
    LET seq == W.nodes[n].inputs[1]
        op == IF Len(W.values[seq].users) = 1 THEN "SequenceMove" ELSE "SequenceCopy"
        line == IF Len(W.values[seq].users) = 1 THEN 568 ELSE 571
    IN Let(EMIT(s, W, n, op, <<node_out(W, s, n, 0)>>, <<R(node_in(W, s, n, 0))>>, line),
           LAMBDA s1 :
       EMIT(s1, W, n, "SequenceAppend", <<>>,
            <<R(node_out(W, s1, n, 0)), R(node_in(W, s1, n, 1))>>, line + 1))

\* the one-output MaxPool that leaves its workspace allocated
EmitMaxPool_KeepsWorkspace(W, s, n) ==
    LET nd == W.nodes[n]
        kernel == [i \in DOMAIN nd.kernel_shape |-> I(IntVector(nd.kernel_shape)[i])]
    IN IF Len(nd.inputs) # 1 THEN Fail(s)
       ELSE IF Len(nd.outputs) = 1
       THEN EMIT([s EXCEPT !.next_value_id = @ + 1], W, n, "MaxPool",
                 <<node_out(W, s, n, 0), s.next_value_id>>,
                 <<R(node_in(W, s, n, 0))>> \o kernel, 421)
       ELSE IF Len(nd.outputs) # 3 THEN Fail(s)
       ELSE IF ~IsNull(W, nd.outputs[2]) THEN Fail(s)
       ELSE EMIT(s, W, n, "MaxPool", <<node_out(W, s, n, 0), node_out(W, s, n, 2)>>,
                 <<R(node_in(W, s, n, 0))>> \o kernel, 426)

\* EmitNode, MaxPool (lines 416-427); the graphs have auto_pad NOTSET;
\* of the attributes the kernel_shape is kept
EmitMaxPool(W, s, n) ==
    LET nd == W.nodes[n]
        kernel == [i \in DOMAIN nd.kernel_shape |-> I(IntVector(nd.kernel_shape)[i])]
    IN IF Len(nd.inputs) # 1 THEN Fail(s)
       ELSE IF Len(nd.outputs) = 1
       THEN LET tmp_id == s.next_value_id
            IN Let(EMIT([s EXCEPT !.next_value_id = @ + 1], W, n, "MaxPool",
                        <<node_out(W, s, n, 0), tmp_id>>,
                        <<R(node_in(W, s, n, 0))>> \o kernel, 421), LAMBDA s1 :
               FREE(s1, tmp_id, 422))
       ELSE IF Len(nd.outputs) # 3 THEN Fail(s)
       ELSE IF ~IsNull(W, nd.outputs[2]) THEN Fail(s)
       ELSE EMIT(s, W, n, "MaxPool", <<node_out(W, s, n, 0), node_out(W, s, n, 2)>>,
                 <<R(node_in(W, s, n, 0))>> \o kernel, 426)

\* the vector outs of lines 372-384 (0-based in the code)
BatchNormalizationOuts(W, s, n) ==
    LET nd == W.nodes[n]
        opaque == W.values[nd.outputs[Len(nd.outputs)]].type_kind = "Opaque"
        num_onnx_outputs == IF opaque THEN Len(nd.outputs) - 1 ELSE Len(nd.outputs)
    IN <<node_out(W, s, n, 0)>>
       \o <<IF opaque THEN node_out(W, s, n, num_onnx_outputs) ELSE -1>>
       \o [i \in 1..Max(num_onnx_outputs - 1, 0) |-> node_out(W, s, n, i)]
       \o [i \in 1..Max(6 - num_onnx_outputs, 0) |-> -1]

\* EmitNode, BatchNormalization (lines 369-400): the instruction takes
\* outs[0] to outs[5]; epsilon, momentum and spatial are left out
EmitBatchNormalization(W, s, n) ==
    LET nd == W.nodes[n]
    IN IF Len(nd.inputs) # 5 THEN Fail(s)
       ELSE IF nd.outputs = <<>> THEN Fail(s)
       ELSE EMIT(s, W, n, "BatchNormalization",
                 SubSeq(BatchNormalizationOuts(W, s, n), 1, 6),
                 [i \in 1..5 |-> R(node_in(W, s, n, i - 1))], 386)

\* a jump left with the placeholder target it was emitted with
SetI_Skip(s, idx, k, target) == s

\* runtime::XCInstructionProto::mutable_inputs(k)->set_i(target), on the
\* instruction of 0-based index idx
SetI(s, idx, k, target) ==
    IF s.failed THEN s ELSE [s EXCEPT !.prog[idx + 1].inputs[k + 1] = I(target)]

RECURSIVE EmitGraph(_, _, _, _, _)
RECURSIVE EmitNode(_, _, _, _)

\* an In at every reading of an input, staged or not
StageInputs_EveryUse(W, acc, n) ==
    Fold(LAMBDA a, value :
            IF ~IsInput(W, value) THEN a
            ELSE [a EXCEPT !.s = AddOp(@, [Inst("In", <<GetValueId(W, a.s, value)>>, <<>>)
                                              EXCEPT !.name = W.values[value].name])],
         acc, W.nodes[n].inputs, 1)

\* EmitGraph, lines 719-726: In for every top-level input on first use
StageInputs(W, acc, n) ==
    Fold(LAMBDA a, value :
            IF ~IsInput(W, value) \/ value \in a.staged_inputs THEN a
            ELSE [a EXCEPT !.staged_inputs = @ \cup {value},
                           !.s = AddOp(@, [Inst("In", <<GetValueId(W, a.s, value)>>, <<>>)
                                              EXCEPT !.name = W.values[value].name])],
         acc, W.nodes[n].inputs, 1)

\* the driver leaving the outputs nobody uses allocated
FreeUnusedOutputs_Never(W, acc, n) ==
    [acc EXCEPT !.todo_outputs = @ \ Range(W.nodes[n].outputs)]

\* EmitGraph, lines 730-737: outputs nobody uses are freed at once
FreeUnusedOutputs(W, acc, n) ==
    Fold(LAMBDA a, output :
            IF output \in a.todo_outputs
            THEN [a EXCEPT !.todo_outputs = @ \ {output}]
            ELSE IF /\ IsTemp(W, output) /\ ~IsNull(W, output)
                    /\ W.values[output].users = <<>>
                    /\ W.nodes[n].op_type # "BatchNormalization"
                 THEN [a EXCEPT !.s = FREE(@, GetValueId(W, a.s, output), 736)]
                 ELSE a,
         acc, W.nodes[n].outputs, 1)

\* the driver leaving every input register allocated
FreeDeadInputs_Never(W, acc, n) == acc

\* the driver freeing an input at each of its readings
FreeDeadInputs_EveryUse(W, acc, n) ==
    Fold(LAMBDA a, input :
            IF input \notin DOMAIN a.num_users THEN a
            ELSE [a EXCEPT !.num_users[input] = @ - 1,
                           !.s = FREE(@, GetValueId(W, a.s, input), 743)],
         acc, W.nodes[n].inputs, 1)

\* EmitGraph, lines 739-745: count the use down, free at zero
FreeDeadInputs(W, acc, n) ==
    Fold(LAMBDA a, input :
            IF input \notin DOMAIN a.num_users THEN a
            ELSE LET left == a.num_users[input] - 1
                     a1 == [a EXCEPT !.num_users[input] = left]
                 IN IF left = 0
                    THEN [a1 EXCEPT !.s = FREE(@, GetValueId(W, a.s, input), 743)]
                    ELSE a1,
         acc, W.nodes[n].inputs, 1)

\* the body of the for loop of EmitGraph, lines 716-746
EmitGraphNode(W, acc, in_loop, n) ==
    IF acc.s.failed \/ n \in acc.s.emitted THEN acc
    ELSE Let([acc EXCEPT !.s.emitted = @ \cup {n}], LAMBDA a0 :
         Let(IF in_loop THEN a0 ELSE StageInputs(W, a0, n), LAMBDA a1 :
         Let([a1 EXCEPT !.s = EmitNode(W, a1.s, a1.g, n)], LAMBDA a2 :
         Let(FreeUnusedOutputs(W, a2, n), LAMBDA a3 :
         FreeDeadInputs(W, a3, n)))))

\* XCVMEmitter::EmitGraph; users_left keeps, for the graph lowered, what the
\* local map num_users holds when the function returns
EmitGraph(W, s, g, in_loop, output_values) ==
    LET G == W.graphs[g]
        counted == (IF in_loop THEN {} ELSE Range(G.input_values)) \cup Range(G.temp_values)
        acc == [s |-> s, g |-> g,
                num_users |-> [v \in counted |-> Len(W.values[v].users)],
                staged_inputs |-> {},
                todo_outputs |-> Range(output_values)]
    IN Let(GetComputationSequence(W, g), LAMBDA nodes :
       Let(Fold(LAMBDA a, n : EmitGraphNode(W, a, in_loop, n), acc, nodes, 1), LAMBDA a :
           [a.s EXCEPT !.users_left = (g :> a.num_users) @@ @]))

\* the lambda emit_branch of EmitIfImpl, also the generic path of
\* EmitFusionGroup (lines 816-838), which is the same code
emit_branch(W, s, cond, first, graph, inputs, outputs) ==
    Let(Fold(LAMBDA a, i :
                EMIT(a, W, cond, "Identity", <<GetValueId(W, a, inputs[i])>>,
                     <<R(GetValueId(W, a, W.nodes[cond].inputs[i + first]))>>, 870),
             s, Idx(Len(inputs)), 1), LAMBDA s1 :
    Let(EmitGraph(W, s1, graph, TRUE, outputs), LAMBDA s2 :
    Let(Fold(LAMBDA a, i : FREE(a, GetValueId(W, a, inputs[i]), 875),
             s2, Idx(Len(inputs)), 1), LAMBDA s3 :
    Fold(LAMBDA a, i :
            IF IsNull(W, outputs[i])
            THEN EMIT(a, W, cond, "NullConstant",
                      <<GetValueId(W, a, W.nodes[cond].outputs[i])>>, <<>>, 882)
            ELSE MOVE(a, W, cond, GetValueId(W, a, W.nodes[cond].outputs[i]),
                      GetValueId(W, a, outputs[i]), 884),
         s3, Idx(Len(W.nodes[cond].outputs)), 1))))

\* the branch jump with the opposite polarity
IfBranchOp_Inverted == "JmpFalse"

\* the jump of line 890: to the then branch when the condition holds
IfBranchOp == "JmpTrue"

\* XCVMEmitter::EmitIfImpl
EmitIfImpl(W, s, cond, then_body, then_input_values, then_output_values, else_body, else_input_values, else_output_values) ==
    IF \/ Len(W.nodes[cond].inputs) # Len(then_input_values) + 1
       \/ Len(W.nodes[cond].inputs) # Len(else_input_values) + 1
       \/ Len(W.nodes[cond].outputs) # Len(then_output_values)
       \/ Len(W.nodes[cond].outputs) # Len(else_output_values)
    THEN Fail(s)
    ELSE Let(instructions_size(s), LAMBDA branch_jmp :
         Let(EMIT(s, W, cond, IfBranchOp, <<>>,
                  <<R(GetValueId(W, s, W.nodes[cond].inputs[1])), I(-1)>>, 890), LAMBDA s1 :
         Let(emit_branch(W, s1, cond, 1, else_body, else_input_values, else_output_values),
             LAMBDA s2 :
         Let(instructions_size(s2), LAMBDA done_jmp :
         Let(EMIT(s2, W, cond, "Jmp", <<>>, <<I(-1)>>, 895), LAMBDA s3 :
         Let(SetI(s3, branch_jmp, 1, instructions_size(s3)), LAMBDA s4 :
         Let(emit_branch(W, s4, cond, 1, then_body, then_input_values, then_output_values),
             LAMBDA s5 :
         Let(SetI(s5, done_jmp, 0, instructions_size(s5)), LAMBDA s6 :
         IF s6.failed THEN s6
         ELSE [s6 EXCEPT !.if_sites = Append(@,
                  [node |-> cond, branch_jmp |-> branch_jmp, done_jmp |-> done_jmp,
                   done |-> instructions_size(s5)])]))))))))

\* XCVMEmitter::EmitIf
EmitIf(W, s, cond) ==
    LET nd == W.nodes[cond]
    IN Let(AssignValueIds(W, s, nd.then_branch), LAMBDA s1 :
       Let(AssignValueIds(W, s1, nd.else_branch), LAMBDA s2 :
       IF s2.failed THEN s2
       ELSE EmitIfImpl(W, s2, cond,
                nd.then_branch, W.graphs[nd.then_branch].input_values,
                W.graphs[nd.then_branch].output_values,
                nd.else_branch, W.graphs[nd.else_branch].input_values,
                W.graphs[nd.else_branch].output_values)))

\* XCVMEmitter::EmitFusionGroup
EmitFusionGroup(W, s, n) ==
    LET nd == W.nodes[n]
        body == W.graphs[nd.subgraph]
        ins == [i \in DOMAIN nd.inputs |-> R(GetValueId(W, s, nd.inputs[i]))]
        outs == [i \in DOMAIN nd.outputs |-> GetValueId(W, s, nd.outputs[i])]
    IN IF \/ Len(nd.inputs) # Len(body.input_values)
          \/ Len(nd.outputs) # Len(body.output_values)
       THEN Fail(s)
       ELSE IF W.g_use_tvm /\ nd.fusion_type = "tvm"
       THEN IF BadId \in Range(outs) \/ R(BadId) \in Range(ins) \/ Len(nd.outputs) # 1
            THEN Fail(s)
            ELSE EMIT(s, W, n, "TVM", outs, ins, 791)
       ELSE IF W.g_use_nvrtc /\ nd.fusion_type = "nvrtc"
       THEN EMIT(s, W, n, "ElementWiseNvrtc", outs, ins, 810)
       ELSE Let(AssignValueIds(W, s, nd.subgraph), LAMBDA s1 :
            emit_branch(W, s1, n, 0, nd.subgraph, body.input_values, body.output_values))

(***************************************************************************)
(* EmitLoopImpl.  L carries the emitter (L.s) and the local variables of   *)
(* the function; (dtype operands of the constants are left out).           *)
(***************************************************************************)
\* int id = next_value_id_++, stored in the local of that name
Alloc(L, local) ==
    Let(L, LAMBDA A : [A EXCEPT ![local] = A.s.next_value_id, !.s.next_value_id = @ + 1])

\* lines 948-959: initialise iter, cond and the state registers
LoopInit(W, L, loop, body_input_values) ==
    LET nd == W.nodes[loop]
        iter_id == GetValueId(W, L.s, body_input_values[1])
    IN Let(LEMIT(L.s, loop, "IntScalarConstant", <<iter_id>>, <<I(0), I(1)>>, 950),
           LAMBDA s1 :
       Let(GetValueId(W, s1, body_input_values[2]), LAMBDA cond_id :
       Let(LEMIT(s1, loop, "IntScalarConstant", <<cond_id>>, <<I(1), I(1)>>, 952),
           LAMBDA s2 :
       Let(Fold(LAMBDA a, i :
                   LEMIT(a, loop, "Identity", <<GetValueId(W, a, body_input_values[i + 2])>>,
                         <<R(GetValueId(W, a, nd.inputs[i + 2]))>>, 958),
                s2, Idx(L.num_states), 1), LAMBDA s3 :
       [L EXCEPT !.s = s3, !.iter_id = iter_id, !.cond_id = cond_id]))))

\* lines 961-967: one temporary sequence per scan output
LoopScanCreate(L, loop) ==
    Fold(LAMBDA a, i :
            LET id == a.s.next_value_id
            IN [a EXCEPT !.s = LEMIT([a.s EXCEPT !.next_value_id = @ + 1], loop,
                                     "SequenceCreate", <<id>>, <<>>, 965),
                         !.scan_out_ids = Append(@, id)],
         L, Idx(L.num_scans), 1)

\* the guard jump and the back-edge jump with the opposite polarity
LoopGuardOp_Inverted == "JmpTrue"
LoopBackOp_Inverted == "JmpFalse"

\* the jump of line 990 (around the loop when the guard is false) and the
\* jump of line 1042 (back to the loop's begin while the condition holds)
LoopGuardOp == "JmpFalse"
LoopBackOp == "JmpTrue"

\* lines 969-991: the guard in front of the loop
LoopGuard(W, L, loop) ==
    LET nd == W.nodes[loop]
        max_trip_count == nd.inputs[1]
        terminal_condition == nd.inputs[2]
    IN Let(IF IsNull(W, max_trip_count) THEN L
           ELSE Let(Alloc(Alloc(L, "zero_id"), "skip_loop_cond_id"), LAMBDA A :
                Let(LEMIT(A.s, loop, "IntScalarConstant", <<A.zero_id>>,
                          <<I(0), I(1)>>, 974), LAMBDA s1 :
                Let(LEMIT(s1, loop, "Greater", <<A.skip_loop_cond_id>>,
                          <<R(GetValueId(W, s1, max_trip_count)), R(A.zero_id)>>, 975),
                    LAMBDA s2 :
                [A EXCEPT !.s = FREE(s2, A.zero_id, 976)]))),
           LAMBDA L1 :
       Let(IF IsNull(W, terminal_condition) THEN L1
           ELSE Let(Alloc(L1, "tmp_id"), LAMBDA A :
                [A EXCEPT !.s = IF A.skip_loop_cond_id >= 0
                                THEN FREE(LEMIT(A.s, loop, "Mul", <<A.tmp_id>>,
                                                <<R(A.skip_loop_cond_id),
                                                  R(GetValueId(W, A.s, terminal_condition))>>,
                                                981),
                                          A.skip_loop_cond_id, 982)
                                ELSE LEMIT(A.s, loop, "Identity", <<A.tmp_id>>,
                                           <<R(GetValueId(W, A.s, terminal_condition))>>, 984),
                          !.skip_loop_cond_id = A.tmp_id]),
           LAMBDA L2 :
       IF L2.skip_loop_cond_id >= 0
       THEN [L2 EXCEPT !.skip_loop_jmp = instructions_size(L2.s),
                       !.s = LEMIT(@, loop, LoopGuardOp, <<>>,
                                   <<R(L2.skip_loop_cond_id), I(-1)>>, 990)]
       ELSE L2))

\* lines 996-1027: after the body, step iter, take over cond', the states
\* and the scan outputs
LoopStep(W, L, loop, body_input_values, body_output_values) ==
    Let(Alloc(Alloc(L, "one_id"), "tmp_id"), LAMBDA A :
    Let(LEMIT(A.s, loop, "IntScalarConstant", <<A.one_id>>, <<I(1), I(1)>>, 997),
        LAMBDA s1 :
    Let(LEMIT(s1, loop, "Add", <<A.tmp_id>>, <<R(A.iter_id), R(A.one_id)>>, 999),
        LAMBDA s2 :
    Let(FREE(s2, A.one_id, 1000), LAMBDA s3 :
    Let(Fold(LAMBDA a, value : FREE(a, GetValueId(W, a, value), 1002),
             s3, body_input_values, 1), LAMBDA s4 :
    Let(LMOVE(s4, loop, A.iter_id, A.tmp_id, 1004), LAMBDA s5 :
    Let(LMOVE(s5, loop, A.cond_id, GetValueId(W, s5, body_output_values[1]), 1005),
        LAMBDA s6 :
    Let(Fold(LAMBDA a, i :
                LET body_in == body_input_values[i + 2]
                    body_out == body_output_values[i + 1]
                IN IF IsNull(W, body_out)
                   THEN LEMIT(a, loop, "NullConstant", <<GetValueId(W, a, body_in)>>,
                              <<>>, 1015)
                   ELSE LMOVE(a, loop, GetValueId(W, a, body_in),
                              GetValueId(W, a, body_out), 1017),
             s6, Idx(A.num_states), 1), LAMBDA s7 :
    Let(Fold(LAMBDA a, i :
                LET body_out == body_output_values[i + A.num_states + 1]
                IN FREE(LEMIT(a, loop, "SequenceAppend", <<>>,
                              <<R(A.scan_out_ids[i]), R(GetValueId(W, a, body_out))>>, 1025),
                        GetValueId(W, a, body_out), 1026),
             s7, Idx(A.num_scans), 1), LAMBDA s8 :
    [A EXCEPT !.s = s8])))))))))

\* the back edge forgetting the trip count where a terminal condition exists
LoopBackEdge_TermOnly(W, L, loop) ==
    LET nd == W.nodes[loop]
    IN Let(IF IsNull(W, nd.inputs[2])
           THEN IF IsNull(W, nd.inputs[1]) THEN [L EXCEPT !.s = Fail(@)]
                ELSE [L EXCEPT !.s =
                         LEMIT(FREE(L.s, L.cond_id, 1032), loop, "Greater", <<L.cond_id>>,
                               <<R(GetValueId(W, L.s, nd.inputs[1])), R(L.iter_id)>>, 1033)]
           ELSE L,
           LAMBDA L1 :
       [L1 EXCEPT !.back_jmp = instructions_size(L1.s),
                  !.s = LEMIT(@, loop, LoopBackOp, <<>>,
                              <<R(L1.cond_id), I(L1.loop_begin)>>, 1042)])

\* lines 1029-1042: recompute the loop condition and jump back
LoopBackEdge(W, L, loop) ==
    LET nd == W.nodes[loop]
        max_trip_count == nd.inputs[1]
        terminal_condition == nd.inputs[2]
    IN Let(IF IsNull(W, terminal_condition)
           THEN IF IsNull(W, max_trip_count) THEN [L EXCEPT !.s = Fail(@)]
                ELSE [L EXCEPT !.s =
                         LEMIT(FREE(L.s, L.cond_id, 1032), loop, "Greater", <<L.cond_id>>,
                               <<R(GetValueId(W, L.s, nd.inputs[1])), R(L.iter_id)>>, 1033)]
           ELSE IF ~IsNull(W, max_trip_count)
           THEN Let(LEMIT(L.s, loop, "Greater", <<L.tmp_id>>,
                          <<R(GetValueId(W, L.s, nd.inputs[1])), R(L.iter_id)>>, 1035),
                    LAMBDA s1 :
                Let(Alloc([L EXCEPT !.s = s1], "tmp2_id"), LAMBDA A :
                Let(LEMIT(A.s, loop, "Mul", <<A.tmp2_id>>,
                          <<R(A.cond_id), R(A.tmp_id)>>, 1037), LAMBDA s2 :
                Let(FREE(s2, A.cond_id, 1038), LAMBDA s3 :
                Let(LMOVE(s3, loop, A.cond_id, A.tmp2_id, 1039), LAMBDA s4 :
                [A EXCEPT !.s = FREE(s4, A.tmp_id, 1040)])))))
           ELSE L,
           LAMBDA L1 :
       [L1 EXCEPT !.back_jmp = instructions_size(L1.s),
                  !.s = LEMIT(@, loop, LoopBackOp, <<>>,
                              <<R(L1.cond_id), I(L1.loop_begin)>>, 1042)])

\* lines 1044-1072: patch the guard, hand the states and scans out
LoopEnd(W, L, loop, body_input_values) ==
    LET nd == W.nodes[loop]
        lend == instructions_size(L.s)
    IN Let(IF L.skip_loop_jmp >= 0
           THEN FREE(SetI(L.s, L.skip_loop_jmp, 1, lend), L.skip_loop_cond_id, 1047)
           ELSE L.s,
           LAMBDA s1 :
       Let(Fold(LAMBDA a, i :
                   LET body_in == body_input_values[i + 2]
                       loop_out == nd.outputs[i]
                   IN IF IsNull(W, loop_out)
                      THEN FREE(a, GetValueId(W, a, body_in), 1057)
                      ELSE LMOVE(a, loop, GetValueId(W, a, loop_out),
                                 GetValueId(W, a, body_in), 1059),
                s1, Idx(L.num_states), 1), LAMBDA s2 :
       Let(Fold(LAMBDA a, i :
                   LET loop_out == nd.outputs[i + L.num_states]
                   IN FREE(LEMIT(a, loop, "SequenceStack", <<GetValueId(W, a, loop_out)>>,
                                 <<R(L.scan_out_ids[i])>>, 1067),
                           L.scan_out_ids[i], 1068),
                s2, Idx(L.num_scans), 1), LAMBDA s3 :
       [L EXCEPT !.lend = lend, !.s = FREE(FREE(s3, L.iter_id, 1071), L.cond_id, 1072)])))

\* the CHECKs without the one that rejects the infinite loop
LoopArgsOk_NoInfiniteCheck(W, loop, body_input_values, body_output_values) ==
    LET nd == W.nodes[loop]
        num_states == Len(nd.inputs) - 2
        num_scans == Len(body_output_values) - 1 - num_states
    IN /\ Len(body_input_values) = num_states + 2
       /\ Len(nd.outputs) = num_states + num_scans

\* lines 928-938: the CHECKs on the shape of the loop, the last one
\* rejecting a loop without trip count and without terminal condition
LoopArgsOk(W, loop, body_input_values, body_output_values) ==
    LET nd == W.nodes[loop]
        num_states == Len(nd.inputs) - 2
        num_scans == Len(body_output_values) - 1 - num_states
    IN /\ Len(body_input_values) = num_states + 2
       /\ Len(nd.outputs) = num_states + num_scans
       /\ ~IsNull(W, nd.inputs[1]) \/ ~IsNull(W, nd.inputs[2])

\* XCVMEmitter::EmitLoopImpl
EmitLoopImpl(W, s, loop, body, body_input_values, body_output_values) ==
    LET nd == W.nodes[loop]
        num_states == Len(nd.inputs) - 2
        num_scans == Len(body_output_values) - 1 - num_states
    IN IF ~LoopArgsOk(W, loop, body_input_values, body_output_values)
       THEN Fail(s)
       ELSE Let([s |-> s, num_states |-> num_states, num_scans |-> num_scans,
                 first |-> instructions_size(s),
                 iter_id |-> -1, cond_id |-> -1, scan_out_ids |-> <<>>,
                 zero_id |-> -1, skip_loop_jmp |-> -1, skip_loop_cond_id |-> -1,
                 loop_begin |-> -1, one_id |-> -1, tmp_id |-> -1, tmp2_id |-> -1,
                 back_jmp |-> -1, lend |-> -1], LAMBDA L0 :
            Let(LoopInit(W, L0, loop, body_input_values), LAMBDA Li :
            Let(LoopScanCreate(Li, loop), LAMBDA Ls :
            Let(LoopGuard(W, Ls, loop), LAMBDA L1 :
            Let([L1 EXCEPT !.loop_begin = instructions_size(L1.s),
                           !.s = EmitGraph(W, L1.s, body, TRUE, body_output_values)],
                LAMBDA L2 :
            Let(LoopStep(W, L2, loop, body_input_values, body_output_values), LAMBDA L3 :
            Let(LoopBackEdge(W, L3, loop), LAMBDA Lb :
            Let(LoopEnd(W, Lb, loop, body_input_values), LAMBDA L4 :
            IF L4.s.failed THEN L4.s
            ELSE [L4.s EXCEPT !.loop_sites = Append(@,
                     [node |-> loop, first |-> L4.first,
                      skip_loop_jmp |-> L4.skip_loop_jmp,
                      skip_loop_cond_id |-> L4.skip_loop_cond_id,
                      loop_begin |-> L4.loop_begin, back_jmp |-> L4.back_jmp,
                      lend |-> L4.lend, last |-> instructions_size(L4.s),
                      iter_id |-> L4.iter_id, cond_id |-> L4.cond_id,
                      scan_out_ids |-> L4.scan_out_ids])]))))))))

\* XCVMEmitter::EmitLoop
EmitLoop(W, s, loop) ==
    LET body == W.nodes[loop].body
    IN Let(AssignValueIds(W, s, body), LAMBDA s1 :
       IF s1.failed THEN s1
       ELSE EmitLoopImpl(W, s1, loop, body, W.graphs[body].input_values,
                         W.graphs[body].output_values))

\* XCVMEmitter::EmitNode: the dispatch on op_type
EmitNode(W, s, g, n) ==
    LET op == W.nodes[n].op_type
    IN IF s.failed THEN s
       ELSE IF op \in SimpleUnaryOps THEN EmitSimpleUnaryOp(W, s, n)
       ELSE IF op \in SimpleBinaryOps THEN EmitSimpleBinaryOp(W, s, n)
       ELSE IF op = "OnikuxFusionGroup" THEN EmitFusionGroup(W, s, n)
       ELSE IF op = "If" THEN EmitIf(W, s, n)
       ELSE IF op = "Loop" THEN EmitLoop(W, s, n)
       ELSE IF op = "Constant" THEN EmitConstant(W, s, n)
       ELSE IF op = "BatchNormalization" THEN EmitBatchNormalization(W, s, n)
       ELSE IF op = "MaxPool" THEN EmitMaxPool(W, s, n)
       ELSE IF op = "OnikuxSequenceCreate"
            THEN EMIT(s, W, n, "SequenceCreate", <<node_out(W, s, n, 0)>>, <<>>, 560)
       ELSE IF op = "OnikuxSequenceAppend" THEN EmitSequenceAppend(W, s, n)
       ELSE IF op = "OnikuxNullConstant"
            THEN EMIT(s, W, n, "NullConstant", <<node_out(W, s, n, 0)>>, <<>>, 0)
       ELSE Fail(s)

\* XCVMEmitter::EmitOutputs
EmitOutputs(W, s, output_values) ==
    Fold(LAMBDA a, value :
            FREE(AddOp(a, [Inst("Out", <<>>, <<R(GetValueId(W, a, value))>>)
                              EXCEPT !.name = W.values[value].name]),
                 GetValueId(W, a, value), 1086),
         s, output_values, 1)

\* XCVMEmitter::EmitStackQuit
EmitStackQuit(s) ==
    Fold(LAMBDA a, id : FREE(a, id, 119), s, s.stack_ids, 1)

\* the values of a std::set<Value*> in the order of iteration, which is the
\* order of the addresses; the values were allocated one after the other
InSetOrder(S) ==
    [k \in 1..Cardinality(S) |-> CHOOSE v \in S : Cardinality({u \in S : u < v}) = k - 1]

\* XCVMEmitter::AssignValueIds(const std::set<Value*>&)
AssignValueIds_set(W, s, values) ==
    Fold(LAMBDA a, v : AssignOne(W, a, v, FALSE), s, InSetOrder(values), 1)

\* XCVMEmitter::EmitNodes
EmitNodes(W, s, nodes) ==
    Fold(LAMBDA a, n : EmitNode(W, a, 0, n), s, nodes, 1)

\* Emit(nodes, fetches, program, output_ids), lines 1113-1127: the result
\* is the emitter at the end and the output_ids
Emit(W, nodes, fetches) ==
    LET values == UNION {Range(W.nodes[nodes[i]].inputs) \cup Range(W.nodes[nodes[i]].outputs) :
                            i \in DOMAIN nodes}
    IN Let(AssignValueIds_set(W, NewEmitter, values), LAMBDA s1 :
       LET output_ids == [i \in DOMAIN fetches |-> GetValueId(W, s1, fetches[i])]
       IN Let(IF BadId \in Range(output_ids) THEN Fail(s1) ELSE s1, LAMBDA s2 :
          [s |-> EmitNodes(W, s2, nodes), output_ids |-> output_ids]))

\* EmitModel handing out the outputs before the graph is lowered
EmitModel_OutputsFirst(W, s, g) ==
    Let(AssignValueIds(W, s, g), LAMBDA s1 :
    Let(EmitOutputs(W, s1, W.graphs[g].output_values), LAMBDA s2 :
    Let(EmitGraph(W, s2, g, FALSE, W.graphs[g].output_values), LAMBDA s3 :
    EmitStackQuit(s3))))

\* XCVMEmitter::EmitModel on the top-level graph g
EmitModel(W, s, g) ==
    Let(AssignValueIds(W, s, g), LAMBDA s1 :
    Let(EmitGraph(W, s1, g, FALSE, W.graphs[g].output_values), LAMBDA s2 :
    Let(EmitOutputs(W, s2, W.graphs[g].output_values), LAMBDA s3 :
    EmitStackQuit(s3))))

(***************************************************************************)
(* The graphs the emitter is run on.  They are built with the graph's own  *)
(* construction calls, so users and producers are what AddNodeImpl makes   *)
(* them.  A shape is a sequence of control-flow wrappers around a leaf     *)
(* computation of one value "out" from the values x, c and n of the        *)
(* enclosing graph; every node is scheduled in the order it was added.     *)
(***************************************************************************)
LastV(W) == Len(W.values)
LastG(W) == Len(W.graphs)

\* the rank the scheduler gives the next node of graph g
Sched(W, g) == [onikux_order |-> Len(W.graphs[g].nodes)]

Tensor(x) == [dtype |-> "int64", dims |-> <<>>, data |-> <<x>>]

\* a new graph with the inputs x, c, n (values LastV-2, LastV-1, LastV)
SubGraph(W, name) ==
    Let(NewGraph(W, name), LAMBDA W1 :
        LET g == LastG(W1)
        IN AddInputValue(AddInputValue(AddInputValue(W1, g, "x"), g, "c"), g, "n"))

Leaves == {"ident", "add", "inc", "chain"}
IfHeads == {"if", "ifn", "ife"}
LoopHeads == {"loop", "loopt", "loopmt", "loops", "loopn", "loop0"}
FuseHeads == {"fuse", "fusen", "fuset"}

RECURSIVE Region(_, _, _, _, _)
Region(W, g, shape, xs, out) ==
    LET head == shape[1]
        rest == Tail(shape)
        x == xs[1]
        c == xs[2]
        n == xs[3]
    IN IF head = "ident" THEN AddNode(W, g, "Identity", <<x>>, <<out>>, Sched(W, g))
       ELSE IF head = "add" THEN AddNode(W, g, "Add", <<x, x>>, <<out>>, Sched(W, g))
       ELSE IF head = "inc" THEN
            Let(AddValue(W, g, "k"), LAMBDA W1 :
            Let(AddNode(W1, g, "Constant", <<>>, <<LastV(W1)>>,
                        [tensor_value |-> Tensor(1)] @@ Sched(W1, g)), LAMBDA W2 :
            AddNode(W2, g, "Add", <<x, LastV(W1)>>, <<out>>, Sched(W2, g))))
       ELSE IF head = "chain" THEN
            Let(AddValue(AddValue(W, g, "t"), g, "u"), LAMBDA W1 :
            LET t == LastV(W1) - 1
                u == LastV(W1)
            IN Let(AddNode(W1, g, "Identity", <<x>>, <<t>>, Sched(W1, g)), LAMBDA W2 :
               Let(AddNode(W2, g, "Identity", <<x>>, <<u>>, Sched(W2, g)), LAMBDA W3 :
               AddNode(W3, g, "Add", <<t, x>>, <<out>>, Sched(W3, g)))))
       ELSE IF head = "dead" THEN
            \* t read by a scheduled node and by one that is not scheduled
            Let(AddValue(AddValue(W, g, "t"), g, "d"), LAMBDA W1 :
            LET t == LastV(W1) - 1
                d == LastV(W1)
            IN Let(AddNode(W1, g, "Identity", <<x>>, <<t>>, Sched(W1, g)), LAMBDA W2 :
               Let(AddNode(W2, g, "Identity", <<t>>, <<out>>, Sched(W2, g)), LAMBDA W3 :
               AddNode(W3, g, "Neg", <<t>>, <<d>>, NoAttrs))))
       ELSE IF head \in IfHeads THEN
            Let(SubGraph(W, "then"), LAMBDA T0 :
            LET gt == LastG(T0)
                txs == <<LastV(T0) - 2, LastV(T0) - 1, LastV(T0)>>
            IN Let(AddOutputValue(T0, gt, "o"), LAMBDA T1 :
               Let(Region(T1, gt, IF head = "ife" THEN <<"ident">> ELSE rest,
                          txs, LastV(T1)), LAMBDA T2 :
               Let(SubGraph(T2, "else"), LAMBDA E0 :
               LET ge == LastG(E0)
                   exs == <<LastV(E0) - 2, LastV(E0) - 1, LastV(E0)>>
               IN Let(AddOutputValue(E0, ge, IF head = "ifn" THEN "" ELSE "o"), LAMBDA E1 :
                  Let(IF head = "ifn" THEN E1
                      ELSE Region(E1, ge, IF head = "ife" THEN rest ELSE <<"ident">>,
                                  exs, LastV(E1)), LAMBDA E2 :
                  AddNode(E2, g, "If", <<c, x, c, n>>, <<out>>,
                          [then_branch |-> gt, else_branch |-> ge] @@ Sched(E2, g))))))))
       ELSE IF head \in LoopHeads THEN
            Let(NewGraph(W, "body"), LAMBDA B0 :
            Let(AddInputValue(AddInputValue(B0, LastG(B0), "iter"), LastG(B0), "cond"),
                LAMBDA B1 :
            LET gb == LastG(B0)
                iter == LastV(B1) - 1
                cond == LastV(B1)
                pass == head # "loopn"
            IN Let(AddInputValue(AddInputValue(AddInputValue(B1, gb, "x"), gb, "c"), gb, "n"),
                   LAMBDA B2 :
               Let(AddOutputValue(AddOutputValue(AddOutputValue(AddOutputValue(
                       B2, gb, "condo"), gb, "xo"),
                       gb, IF pass THEN "co" ELSE ""), gb, IF pass THEN "no" ELSE ""),
                   LAMBDA B3 :
               LET bxs == <<LastV(B2) - 2, LastV(B2) - 1, LastV(B2)>>
                   condo == LastV(B3) - 3
               IN Let(IF head = "loops" THEN AddOutputValue(B3, gb, "scan") ELSE B3,
                      LAMBDA B4 :
                  Let(Region(B4, gb, rest, bxs, condo + 1), LAMBDA B5 :
                  Let(IF head \in {"loopt", "loopmt"}
                      THEN Let(AddValue(B5, gb, "lim"), LAMBDA K0 :
                           Let(AddNode(K0, gb, "Constant", <<>>, <<LastV(K0)>>,
                                       [tensor_value |-> Tensor(1)] @@ Sched(K0, gb)),
                               LAMBDA K1 :
                           AddNode(K1, gb, "Greater", <<LastV(K0), iter>>, <<condo>>,
                                   Sched(K1, gb))))
                      ELSE AddNode(B5, gb, "Identity", <<cond>>, <<condo>>, Sched(B5, gb)),
                      LAMBDA B6 :
                  Let(IF pass
                      THEN Let(AddNode(B6, gb, "Identity", <<bxs[2]>>, <<condo + 2>>,
                                       Sched(B6, gb)), LAMBDA P1 :
                           AddNode(P1, gb, "Identity", <<bxs[3]>>, <<condo + 3>>,
                                   Sched(P1, gb)))
                      ELSE B6,
                      LAMBDA B7 :
                  Let(IF head = "loops"
                      THEN AddNode(B7, gb, "Identity", <<iter>>, <<condo + 4>>, Sched(B7, gb))
                      ELSE B7,
                      LAMBDA B8 :
                  \* in the enclosing graph: the absent slots and the scan result
                  Let(AddNullValue(AddNullValue(B8, g), g), LAMBDA O1 :
                  Let(IF head = "loops" THEN AddValue(O1, g, "stacked") ELSE O1, LAMBDA O2 :
                  LET null1 == LastV(O1) - 1
                      null2 == LastV(O1)
                      max == IF head \in {"loopt", "loop0"} THEN null1 ELSE n
                      term == IF head \in {"loopt", "loopmt"} THEN c ELSE null2
                  IN AddNode(O2, g, "Loop", <<max, term, x, c, n>>,
                             <<out, null1, null2>> \o
                                 (IF head = "loops" THEN <<LastV(O2)>> ELSE <<>>),
                             [body |-> gb] @@ Sched(O2, g)))))))))))))
       ELSE \* head \in FuseHeads
            Let(SubGraph(W, "fusion"), LAMBDA F0 :
            LET gs == LastG(F0)
                fxs == <<LastV(F0) - 2, LastV(F0) - 1, LastV(F0)>>
            IN Let(AddOutputValue(F0, gs, "o"), LAMBDA F1 :
               Let(Region(F1, gs, rest, fxs, LastV(F1)), LAMBDA F2 :
               Let([F2 EXCEPT !.g_use_nvrtc = @ \/ head = "fusen",
                              !.g_use_tvm = @ \/ head = "fuset"], LAMBDA F3 :
               AddNode(F3, g, "OnikuxFusionGroup", <<x, c, n>>, <<out>>,
                       [subgraph |-> gs,
                        fusion_type |-> IF head = "fusen" THEN "nvrtc"
                                        ELSE IF head = "fuset" THEN "tvm" ELSE ""]
                       @@ Sched(F3, g))))))

\* the top-level graph (graph 1) around a shape: inputs x, c, n, output y
BuildWorld(shape) ==
    Let(AddOutputValue(SubGraph(EmptyWorld, "main"), 1, "y"), LAMBDA W1 :
        Region(W1, 1, shape, <<1, 2, 3>>, 4))

\* the graph of the "empty function": one input, one output, one Identity
IdentityWorld ==
    Let(AddOutputValue(AddInputValue(NewGraph(EmptyWorld, "main"), 1, "x"), 1, "y"),
        LAMBDA W0 :
        AddNode(W0, 1, "Identity", <<1>>, <<2>>, Sched(W0, 1)))

\* two outputs computed from one input through a shared temporary
TwoOutWorld ==
    Let(AddInputValue(NewGraph(EmptyWorld, "main"), 1, "x"), LAMBDA W0 :
    Let(AddOutputValue(AddOutputValue(W0, 1, "y"), 1, "z"), LAMBDA W1 :
    Let(AddValue(W1, 1, "t"), LAMBDA W2 :
    Let(AddNode(W2, 1, "Identity", <<1>>, <<4>>, Sched(W2, 1)), LAMBDA W3 :
    Let(AddNode(W3, 1, "Identity", <<4>>, <<2>>, Sched(W3, 1)), LAMBDA W4 :
    AddNode(W4, 1, "Add", <<4, 1>>, <<3>>, Sched(W4, 1)))))))

\* the counting loop: Loop(n, null, s0) -> out with the body s' = s + 1
CountWorld ==
    Let(AddInputValue(AddInputValue(NewGraph(EmptyWorld, "main"), 1, "n"), 1, "s0"),
        LAMBDA W0 :
    Let(AddNullValue(AddOutputValue(W0, 1, "out"), 1), LAMBDA W1 :
    Let(NewGraph(W1, "body"), LAMBDA B0 :
    Let(AddInputValue(AddInputValue(AddInputValue(B0, 2, "iter"), 2, "cond"), 2, "s"),
        LAMBDA B1 :
    Let(AddOutputValue(AddOutputValue(B1, 2, "condo"), 2, "so"), LAMBDA B2 :
    Let(AddValue(B2, 2, "k"), LAMBDA B3 :
    Let(AddNode(B3, 2, "Constant", <<>>, <<10>>,
                [tensor_value |-> Tensor(1)] @@ Sched(B3, 2)), LAMBDA B4 :
    Let(AddNode(B4, 2, "Add", <<7, 10>>, <<9>>, Sched(B4, 2)), LAMBDA B5 :
    Let(AddNode(B5, 2, "Identity", <<6>>, <<8>>, Sched(B5, 2)), LAMBDA B6 :
    AddNode(B6, 1, "Loop", <<1, 4, 2>>, <<3>>, [body |-> 2] @@ Sched(B6, 1)))))))))))

\* y = SequenceAppend(seq, x) on a sequence made by SequenceCreate: alone,
\* with a reader z = Identity(seq) scheduled after or before it, with a
\* reader that is not scheduled, and appending the sequence to itself
SeqVariants == {"solo", "later", "earlier", "unsched", "self"}

SeqWorld(variant) ==
    Let(AddOutputValue(AddInputValue(NewGraph(EmptyWorld, "main"), 1, "x"), 1, "y"),
        LAMBDA W0 :
    Let(IF variant \in {"later", "earlier"}
        THEN AddOutputValue(W0, 1, "z") ELSE AddValue(W0, 1, "z"), LAMBDA W1 :
    Let(AddValue(W1, 1, "seq"), LAMBDA W2 :
    Let(AddNode(W2, 1, "OnikuxSequenceCreate", <<>>, <<4>>, Sched(W2, 1)), LAMBDA W3 :
    Let(IF variant = "earlier"
        THEN AddNode(W3, 1, "Identity", <<4>>, <<3>>, Sched(W3, 1)) ELSE W3, LAMBDA W4 :
    Let(AddNode(W4, 1, "OnikuxSequenceAppend",
                <<4, IF variant = "self" THEN 4 ELSE 1>>, <<2>>, Sched(W4, 1)), LAMBDA W5 :
    IF variant = "later" THEN AddNode(W5, 1, "Identity", <<4>>, <<3>>, Sched(W5, 1))
    ELSE IF variant = "unsched" THEN AddNode(W5, 1, "Identity", <<4>>, <<3>>, NoAttrs)
    ELSE W5))))))

\* MaxPool with num_in inputs x and num_out outputs: y, then a middle
\* output and a third output, each null or a temporary, then a fourth
PoolWorld(num_in, num_out, mid_null, third_null) ==
    Let(AddOutputValue(AddInputValue(NewGraph(EmptyWorld, "main"), 1, "x"), 1, "y"),
        LAMBDA W0 :
    Let(AddValue(W0, 1, IF mid_null THEN "" ELSE "m"), LAMBDA W1 :
    Let(AddValue(W1, 1, IF third_null THEN "" ELSE "w"), LAMBDA W2 :
    Let(AddValue(W2, 1, "e"), LAMBDA W3 :
    AddNode(W3, 1, "MaxPool", [i \in 1..num_in |-> 1], SubSeq(<<2, 3, 4, 5>>, 1, num_out),
            [kernel_shape |-> <<FromInt(2), FromInt(2)>>] @@ Sched(W3, 1))))))

PoolWorlds ==
    {PoolWorld(i, k, m, w) : i \in 1..2, k \in 0..4, m \in BOOLEAN, w \in BOOLEAN}

\* BatchNormalization with num_in inputs and num_out outputs: y, then
\* temporaries nobody uses; opaque: the last output has an Opaque type
BNWorld(num_in, num_out, opaque) ==
    Let(AddInputValue(AddInputValue(NewGraph(EmptyWorld, "main"), 1, "x"), 1, "c"),
        LAMBDA W0 :
    Let(AddOutputValue(W0, 1, "y"), LAMBDA W1 :
    Let(ForEach(LAMBDA W, i : AddValue(W, 1, "b" \o ToString(i)), W1, Idx(num_out - 1), 1),
        LAMBDA W2 :
    Let(IF opaque THEN SetOpaque(W2, LastV(W2)) ELSE W2, LAMBDA W3 :
    AddNode(W3, 1, "BatchNormalization", SubSeq(<<1, 2, 1, 2, 1>>, 1, num_in),
            [i \in 1..num_out |-> i + 2], Sched(W3, 1))))))

BNWorlds == {BNWorld(i, k, o) : i \in 4..5, k \in 1..7, o \in BOOLEAN}

\* the dimensions tried: -1, 0, 2, 2^31 - 1, 2^31, 2^32 - 1, 2^32
DimChoices ==
    {Int64(-1, 65535), FromInt(0), FromInt(2), Int64(32767, 65535), Int64(32768, 0),
     Int64(65535, 65535), Int64(65536, 0)}

\* Tensor::NumElements of a tensor with the dimensions dims, where it is at
\* most 4: such a tensor has a zero or only the dimension 2
NumElements(dims) ==
    IF FromInt(0) \in Range(dims) THEN 0 ELSE IF Len(dims) = 1 THEN 2 ELSE 4

\* the tensors of the Constant nodes tried: those with few elements, and
\* those with a dimension that EmitConstantImpl is to refuse
ConstTensors ==
    {[dtype |-> dt, dims |-> dims,
      data |-> IF \A i \in DOMAIN dims : NonNegative(dims[i]) /\ BelowTwoTo32(dims[i])
               THEN [i \in 1..NumElements(dims) |-> 0] ELSE <<>>] :
        dt \in {"int64", "float32"},
        dims \in {d \in SeqsUpTo(DimChoices, 2) :
                     /\ d # <<>>
                     /\ \/ FromInt(0) \in Range(d)
                        \/ Range(d) = {FromInt(2)}
                        \/ \E i \in DOMAIN d : ~(NonNegative(d[i]) /\ BelowTwoTo32(d[i]))}}

\* y = Identity(k) of a constant k with the tensor value
ConstWorld(value) ==
    Let(AddValue(AddOutputValue(NewGraph(EmptyWorld, "main"), 1, "y"), 1, "k"), LAMBDA W0 :
    Let(AddNode(W0, 1, "Constant", <<>>, <<2>>, [tensor_value |-> value] @@ Sched(W0, 1)),
        LAMBDA W1 :
    AddNode(W1, 1, "Identity", <<2>>, <<1>>, Sched(W1, 1))))

\* the shapes explored: every leaf alone, the leaves under every wrapper,
\* and pairs of wrappers around the leaf "add"
Shapes ==
    {<<l>> : l \in Leaves}
    \cup {<<h, "add">> : h \in IfHeads \cup LoopHeads \cup FuseHeads}
    \cup {<<h, l>> : h \in {"if", "loop", "fuse"}, l \in {"ident", "inc", "chain"}}
    \cup {<<"loopmt", "inc">>, <<"loops", "chain">>, <<"loopt", "inc">>}
    \cup {<<"if", "if", "add">>, <<"if", "loop", "inc">>, <<"if", "loopmt", "add">>,
          <<"ifn", "loops", "add">>, <<"if", "fuse", "add">>, <<"if", "loop0", "add">>,
          <<"loop", "if", "add">>, <<"loop", "loop", "inc">>, <<"loop", "fuse", "chain">>,
          <<"loopt", "if", "add">>, <<"loopmt", "loopt", "add">>,
          <<"loops", "ifn", "add">>, <<"loopn", "if", "add">>, <<"loop", "loop0", "add">>,
          <<"fuse", "if", "add">>, <<"fuse", "loop", "add">>, <<"fusen", "loop0", "add">>,
          <<"ife", "if", "add">>, <<"ife", "ifn", "add">>,
          <<"ife", "loop", "add">>, <<"loop", "dead">>, <<"if", "dead">>}

Worlds ==
    {BuildWorld(sh) : sh \in Shapes} \cup {IdentityWorld, TwoOutWorld, CountWorld}
    \cup {SeqWorld(variant) : variant \in SeqVariants}
    \cup PoolWorlds \cup BNWorlds
    \cup {ConstWorld(value) : value \in ConstTensors}

(***************************************************************************)
(* The machine that runs the emitted program.  A register is unset, live   *)
(* or free; it keeps the integer it last held (a sequence is represented   *)
(* by its length, a null by 0).  trace lists the instructions executed,    *)
(* each with the index of the instruction control went to next and, for a  *)
(* conditional jump, the value of the condition read.                      *)
(***************************************************************************)
NewVM == [status |-> "idle", pc |-> 0, regs |-> <<>>, outs |-> <<>>, trace |-> <<>>]

Truth(b) == IF b THEN 1 ELSE 0

\* the value an instruction computes from the values a of its register operands
Compute(inst, a, feed) ==
    LET op == inst.op
    IN IF op = "In" THEN feed[inst.name]
       ELSE IF op \in {"IntScalarConstant", "FloatScalarConstant"} THEN inst.inputs[1].v
       ELSE IF op = "Identity" THEN a[1]
       ELSE IF op = "Add" THEN a[1] + a[2]
       ELSE IF op = "Sub" THEN a[1] - a[2]
       ELSE IF op = "Mul" THEN a[1] * a[2]
       ELSE IF op = "Greater" THEN Truth(a[1] > a[2])
       ELSE IF op = "Equal" THEN Truth(a[1] = a[2])
       ELSE IF op = "Neg" THEN 0 - a[1]
       ELSE IF op = "Not" THEN Truth(a[1] = 0)
       ELSE IF op \in {"SequenceStack", "SequenceMove", "SequenceCopy"} THEN a[1]
       ELSE IF op \in {"TVM", "ElementWiseNvrtc"} THEN a[1]
       ELSE 0

\* one instruction of the program prog, run in machine state m
Exec(m, prog, feed) ==
    LET inst == prog[m.pc + 1]
        regin == SelectSeq(inst.inputs, LAMBDA o : o.k = "reg" /\ o.v # -1)
        a == [i \in DOMAIN regin |-> m.regs[regin[i].v].val]
        op == inst.op
        cv == IF op \in {"JmpTrue", "JmpFalse"} THEN a[1] ELSE -1
        pc1 == IF op = "Jmp" THEN inst.inputs[1].v
               ELSE IF op = "JmpTrue" /\ a[1] # 0 THEN inst.inputs[2].v
               ELSE IF op = "JmpFalse" /\ a[1] = 0 THEN inst.inputs[2].v
               ELSE m.pc + 1
        regs1 == [r \in DOMAIN m.regs |->
                     IF r \in RegOutputs(inst)
                     THEN [st |-> "live", val |-> Compute(inst, a, feed)]
                     ELSE IF op = "Free" /\ r = inst.inputs[1].v
                     THEN [m.regs[r] EXCEPT !.st = "free"]
                     ELSE IF op = "SequenceAppend" /\ r = inst.inputs[1].v
                     THEN [m.regs[r] EXCEPT !.val = @ + 1]
                     ELSE m.regs[r]]
        trace1 == Append(m.trace, [pc |-> m.pc, cv |-> cv, next |-> pc1])
    IN [status |-> IF pc1 >= Len(prog) \/ pc1 < 0 THEN "halted"
                   ELSE IF Len(trace1) >= MaxSteps THEN "cut"
                   ELSE "running",
        pc |-> pc1,
        regs |-> regs1,
        outs |-> IF op = "Out" THEN (inst.name :> a[1]) @@ m.outs ELSE m.outs,
        trace |-> trace1]

(***************************************************************************)
(* The emission session and the run of its result.                         *)
(***************************************************************************)
\* the names of the top-level inputs some node uses
UsedInputs(W) ==
    {W.values[v].name : v \in {u \in Range(W.graphs[1].input_values) :
                                  W.values[u].users # <<>>}}

FeedLimit(name) == IF name = "n" THEN MaxTrip ELSE MaxVal

Feeds(W) ==
    {f \in [UsedInputs(W) -> 0..(MaxTrip + MaxVal)] :
        \A name \in UsedInputs(W) : f[name] <= FeedLimit(name)}

\* no traversal has been asked for
NoSort == [done |-> FALSE, failed |-> FALSE, nodes |-> <<>>]

\* no graph is being read from ONNX; no call has returned
NoProto == [name |-> "none"]
NoAnswer == [call |-> "none"]

Init ==
    /\ world \in Worlds
    /\ rt \in Feeds(world)
    /\ em = NewEmitter
    /\ vm = NewVM
    /\ sorted_nodes = NoSort
    /\ xgraph = NoProto
    /\ answer = NoAnswer

\* Emit(graph, program, dump_value_names)
DoEmit ==
    /\ em.phase = "new"
    /\ em' = [EmitModel(world, em, 1) EXCEPT !.phase = "done"]
    /\ UNCHANGED <<world, rt, vm, sorted_nodes, xgraph, answer>>

\* the program of a session that did not abort is handed to the machine
DoLoad ==
    /\ em.phase = "done"
    /\ ~em.failed
    /\ vm.status = "idle"
    /\ vm' = [vm EXCEPT !.status = IF em.prog = <<>> THEN "halted" ELSE "running",
                        !.regs = [r \in 1..(em.next_value_id - 1) |->
                                     [st |-> "unset", val |-> 0]]]
    /\ UNCHANGED <<world, rt, em, sorted_nodes, xgraph, answer>>

DoStep ==
    /\ vm.status = "running"
    /\ vm' = Exec(vm, em.prog, rt)
    /\ UNCHANGED <<world, rt, em, sorted_nodes, xgraph, answer>>

\* Emit(nodes, fetches, program, output_ids) on the scheduled nodes of the
\* top-level graph, fetching its outputs
DoEmitNodes ==
    /\ em.phase = "new"
    /\ \E r \in {Emit(world, GetComputationSequence(world, 1), world.graphs[1].output_values)} :
           /\ em' = [r.s EXCEPT !.phase = "nodes"]
           /\ answer' = [call |-> "Emit", output_ids |-> r.output_ids]
    /\ UNCHANGED <<world, rt, vm, sorted_nodes, xgraph>>

Next == DoEmit \/ DoEmitNodes \/ DoLoad \/ DoStep

Spec == Init /\ [][Next]_vars

(***************************************************************************)
(* A graph under construction: a client adds nodes over the values that    *)
(* exist, detaches nodes, and calls the traversals.  The graph starts      *)
(* with the declared input a, one null value, which stands in every        *)
(* absent slot as the value named "" does in a graph read from ONNX, a     *)
(* node that splits a and keeps the second part v1 only, a scheduled       *)
(* node v2 = Add(a, v1), and the declared output y, which nothing          *)
(* produces yet.                                                           *)
(***************************************************************************)
MaxNodes == 1   \* the nodes a client adds

\* the values the graph starts with: the input a and the null value
GraphValues == AddNullValue(AddInputValue(NewGraph(EmptyWorld, "main"), 1, "a"), 1)

TheNull == LastV(GraphValues)

GraphInit ==
    LET W1 == AddValue(GraphValues, 1, "v1")
        W2 == AddNode(W1, 1, "Split", <<TheNull - 1>>, <<TheNull, LastV(W1)>>, NoAttrs)
        W3 == AddValue(W2, 1, "v2")
        W4 == AddNode(W3, 1, "Add", <<TheNull - 1, LastV(W1)>>, <<LastV(W3)>>, Sched(W3, 1))
    IN AddOutputValue(W4, 1, "y")

\* the operators a client adds, with their numbers of inputs and outputs
GraphOps ==
    {[op_type |-> "Constant", ins |-> 0, outs |-> 1],
     [op_type |-> "Add", ins |-> 2, outs |-> 1],
     [op_type |-> "OnikuxPrint", ins |-> 1, outs |-> 0],
     [op_type |-> "OnikuxBackpropStackPush", ins |-> 1, outs |-> 0]}

\* the declared outputs of the graph nothing produces yet
OpenOutputs(W) ==
    {v \in Range(W.graphs[1].output_values) : W.values[v].producer = 0}

\* the permutations of the sequence q
Perms(q) ==
    {p \in [DOMAIN q -> Range(q)] : \A i, j \in DOMAIN q : i # j => p[i] # p[j]}

InitGraph ==
    /\ world = GraphInit
    /\ rt = <<>>
    /\ em = NewEmitter
    /\ vm = NewVM
    /\ sorted_nodes = NoSort
    /\ xgraph = NoProto
    /\ answer = NoAnswer

\* graph->AddNode(op_type, inputs, outputs), the node being given the next
\* rank of the schedule; its output is a declared output of the graph
\* (target) or a new temporary: out = graph->AddValue(name).  The inputs
\* are values that are not declared outputs; of the two inputs of an Add
\* the first is the declared input or the null value.
GAddNode ==
    /\ Len(world.nodes) < Len(GraphInit.nodes) + MaxNodes
    /\ \E o \in GraphOps :
          \E inputs \in [1..o.ins -> DOMAIN world.values \ Range(world.graphs[1].output_values)] :
              /\ o.op_type = "Add" => inputs[1] <= inputs[2] /\ inputs[1] <= TheNull
              /\ \E target \in {0} \cup (IF o.outs = 1 THEN OpenOutputs(world) ELSE {}) :
                    LET W1 == IF o.outs = 1 /\ target = 0
                              THEN AddValue(world, 1, "v" \o ToString(Len(world.nodes) + 1))
                              ELSE world
                        outputs == IF o.outs = 0 THEN <<>>
                                   ELSE IF target = 0 THEN <<LastV(W1)>> ELSE <<target>>
                    IN world' = AddNode(W1, 1, o.op_type, inputs, outputs, Sched(W1, 1))
    /\ sorted_nodes' = NoSort
    /\ answer' = NoAnswer
    /\ UNCHANGED <<rt, em, vm, xgraph>>

\* graph->DetachNode(node)
GDetachNode ==
    /\ \E n \in Range(GetLiveNodes(world, 1)) : world' = DetachNode(world, n)
    /\ sorted_nodes' = NoSort
    /\ answer' = NoAnswer
    /\ UNCHANGED <<rt, em, vm, xgraph>>

\* graph->GetTopologicallySortedNodes()
GSort ==
    /\ \E by_address \in Perms(SelectSeq(GetLiveNodes(world, 1),
                                           LAMBDA n : GetNumActualInputs(world, n) = 0)) :
          sorted_nodes' = GetTopologicallySortedNodes(world, 1, by_address)
    /\ answer' = NoAnswer
    /\ UNCHANGED <<world, rt, em, vm, xgraph>>

\* graph->GetLiveNodes()
GLiveNodes ==
    /\ answer' = [call |-> "GetLiveNodes", nodes |-> GetLiveNodes(world, 1)]
    /\ sorted_nodes' = NoSort
    /\ UNCHANGED <<world, rt, em, vm, xgraph>>

\* graph->GetComputationSequence()
GComputationSequence ==
    /\ answer' = [call |-> "GetComputationSequence",
                  nodes |-> GetComputationSequence(world, 1)]
    /\ sorted_nodes' = NoSort
    /\ UNCHANGED <<world, rt, em, vm, xgraph>>

\* graph->GetNecessaryNodesAndInputCounts(graph->output_values())
GNecessaryNodes ==
    /\ answer' = [call |-> "GetNecessaryNodesAndInputCounts",
                  counts |-> GetNecessaryNodesAndInputCounts(
                                 world, 1, world.graphs[1].output_values)]
    /\ sorted_nodes' = NoSort
    /\ UNCHANGED <<world, rt, em, vm, xgraph>>

\* graph->GetNecessaryValues(output_values), asked for the declared outputs
\* of the graph or for one of its temporaries
GNecessaryValues ==
    /\ \E output_values \in {world.graphs[1].output_values}
                                \cup {<<v>> : v \in Range(world.graphs[1].temp_values)} :
           answer' = [call |-> "GetNecessaryValues", outputs |-> output_values,
                      values |-> GetNecessaryValues(world, output_values)]
    /\ sorted_nodes' = NoSort
    /\ UNCHANGED <<world, rt, em, vm, xgraph>>

NextGraph ==
    \/ GAddNode
    \/ GDetachNode
    \/ GSort
    \/ GLiveNodes
    \/ GComputationSequence
    \/ GNecessaryNodes
    \/ GNecessaryValues

SpecGraph == InitGraph /\ [][NextGraph]_vars

(***************************************************************************)
(* Graph::Graph(const onnx::GraphProto&) and Graph::ToONNX.  A GraphProto  *)
(* is a record of its repeated fields: input, output and value_info hold   *)
(* the names of the ValueInfoProtos, initializer the names of the          *)
(* TensorProtos, node the NodeProtos (op_type, input and output names).    *)
(* The constructor's state c is the world W it builds graph c.g in, its    *)
(* local map values_by_name, and whether a CHECK has failed.               *)
(***************************************************************************)
\* lines 20-25: a declared input
DeclareInput(c, name) ==
    LET W1 == AddInputValue(c.W, c.g, name)
    IN IF name \in DOMAIN c.values_by_name THEN [c EXCEPT !.W = W1, !.failed = TRUE]
       ELSE [c EXCEPT !.W = W1, !.values_by_name = (name :> LastV(W1)) @@ @]

\* a declared output whose name is taken left as it is, without an Identity
DeclareOutput_NoIdentity(c, name) ==
    LET W1 == AddOutputValue(c.W, c.g, name)
    IN IF name \in DOMAIN c.values_by_name THEN [c EXCEPT !.W = W1]
       ELSE [c EXCEPT !.W = W1, !.values_by_name = (name :> LastV(W1)) @@ @]

\* lines 26-34: a declared output; where the name is taken, an Identity
\* node from the value of that name to the new value
DeclareOutput(c, name) ==
    LET W1 == AddOutputValue(c.W, c.g, name)
    IN IF name \in DOMAIN c.values_by_name
       THEN [c EXCEPT !.W = AddNode(W1, c.g, "Identity", <<c.values_by_name[name]>>,
                                    <<LastV(W1)>>, NoAttrs)]
       ELSE [c EXCEPT !.W = W1, !.values_by_name = (name :> LastV(W1)) @@ @]

\* lines 35-40: a value_info entry; the value enters temp_values whatever
\* its name
DeclareTemp(c, name) ==
    LET v == LastV(c.W) + 1
        W1 == [c.W EXCEPT !.values = Append(@, NewValue(name, kTemp)),
                          !.graphs[c.g].all_values = Append(@, v),
                          !.graphs[c.g].temp_values = Append(@, v)]
    IN IF name \in DOMAIN c.values_by_name THEN [c EXCEPT !.W = W1, !.failed = TRUE]
       ELSE [c EXCEPT !.W = W1, !.values_by_name = (name :> v) @@ @]

\* an initializer attached to the value of its name whatever its kind
AttachInitializer_AnyKind(c, name) ==
    IF name \notin DOMAIN c.values_by_name THEN [c EXCEPT !.failed = TRUE]
    ELSE [c EXCEPT !.W.tensors = Append(@, [name |-> name]),
                   !.W.values[c.values_by_name[name]].initializer = Len(c.W.tensors) + 1]

\* lines 42-49: an initializer; tensor is the new Tensor(xtensor)
AttachInitializer(c, name) ==
    IF name \notin DOMAIN c.values_by_name THEN [c EXCEPT !.failed = TRUE]
    ELSE IF c.W.values[c.values_by_name[name]].kind # kInput THEN [c EXCEPT !.failed = TRUE]
    ELSE [c EXCEPT !.W.tensors = Append(@, [name |-> name]),
                   !.W.values[c.values_by_name[name]].initializer = Len(c.W.tensors) + 1]

\* the lambda get_value, lines 51-55, for every name of names in turn;
\* the values found or made are left in c.got
get_value(c, names) ==
    Fold(LAMBDA a, name :
            IF name \in DOMAIN a.values_by_name
            THEN [a EXCEPT !.got = Append(@, a.values_by_name[name])]
            ELSE Let(AddValue(a.W, a.g, name), LAMBDA W1 :
                 [a EXCEPT !.W = W1,
                           !.values_by_name = (name :> LastV(W1)) @@ @,
                           !.got = Append(@, LastV(W1))]),
         [c EXCEPT !.got = <<>>], names, 1)

\* lines 57-69: a node of the proto
ProtoNode(c, xnode) ==
    Let(get_value(c, xnode.input), LAMBDA c1 :
    Let(get_value(c1, xnode.output), LAMBDA c2 :
    [c2 EXCEPT !.W = AddNode(c2.W, c2.g, xnode.op_type, c1.got, c2.got,
                             NoAttrs)]))

\* Graph::Graph(const onnx::GraphProto&), the new graph being the next one
\* of world W
GraphFromProto(W, xg) ==
    Let(NewGraph(W, xg.name), LAMBDA W0 :
    Let(Fold(DeclareInput,
             [W |-> W0, g |-> LastG(W0), values_by_name |-> <<>>, failed |-> FALSE,
              got |-> <<>>],
             xg.input, 1), LAMBDA c1 :
    Let(Fold(DeclareOutput, c1, xg.output, 1), LAMBDA c2 :
    Let(Fold(DeclareTemp, c2, xg.value_info, 1), LAMBDA c3 :
    Let(Fold(AttachInitializer, c3, xg.initializer, 1), LAMBDA c4 :
    Fold(ProtoNode, c4, xg.node, 1))))))

\* the names of the values vs
ValueNames(W, vs) == [i \in DOMAIN vs |-> W.values[vs[i]].name]

\* Graph::ToONNX: the values go to input, output or value_info by their
\* kind, a value of any other kind (a null value) is left out; then every
\* stored node
ToONNX(W, g) ==
    LET G == W.graphs[g]
        OfKind(kind) == SelectSeq(G.all_values, LAMBDA v : W.values[v].kind = kind)
        dumped == SelectSeq(G.all_values,
                            LAMBDA v : /\ W.values[v].kind \in {kInput, kOutput, kTemp}
                                       /\ W.values[v].initializer # 0)
    IN [name |-> G.name,
        input |-> ValueNames(W, OfKind(kInput)),
        output |-> ValueNames(W, OfKind(kOutput)),
        value_info |-> ValueNames(W, OfKind(kTemp)),
        initializer |-> [i \in DOMAIN dumped |->
                            W.tensors[W.values[dumped[i]].initializer].name],
        node |-> [i \in DOMAIN G.nodes |->
                     [op_type |-> W.nodes[G.nodes[i]].op_type,
                      input |-> ValueNames(W, W.nodes[G.nodes[i]].inputs),
                      output |-> ValueNames(W, W.nodes[G.nodes[i]].outputs)]]]

(***************************************************************************)
(* A graph read from ONNX, written back and read again.                    *)
(***************************************************************************)
MaxDecl == 2   \* the most inputs and the most outputs a GraphProto declares

NodeProto(op_type, input, output) ==
    [op_type |-> op_type, input |-> input, output |-> output]

\* the node lists of the protos: none; one node into an undeclared name;
\* two nodes with absent slots, the second writing the name y
ProtoNodes ==
    {<<>>,
     <<NodeProto("Relu", <<"x">>, <<"u">>)>>,
     <<NodeProto("Split", <<"x">>, <<"", "t">>), NodeProto("Add", <<"t", "">>, <<"y">>)>>,
     <<NodeProto("Constant", <<>>, <<"t">>), NodeProto("Add", <<"t", "t">>, <<"u">>)>>}

Protos ==
    {[name |-> "main", input |-> i, output |-> o, value_info |-> vi,
      initializer |-> it, node |-> nd] :
        i \in SeqsUpTo({"x", "y", ""}, MaxDecl),
        o \in SeqsUpTo({"y", ""}, MaxDecl),
        vi \in {<<>>, <<"t">>, <<"y">>},
        it \in {<<>>, <<"x">>, <<"y">>, <<"t">>, <<"w">>},
        nd \in ProtoNodes}

InitOnnx ==
    /\ xgraph \in Protos
    /\ world = EmptyWorld
    /\ answer = NoAnswer
    /\ rt = <<>>
    /\ em = NewEmitter
    /\ vm = NewVM
    /\ sorted_nodes = NoSort

\* Graph graph(xgraph); a failed CHECK leaves no graph
OGraph ==
    /\ answer = NoAnswer
    /\ \E c \in {GraphFromProto(EmptyWorld, xgraph)} :
          /\ world' = IF c.failed THEN EmptyWorld ELSE c.W
          /\ answer' = [call |-> "Graph", failed |-> c.failed]
    /\ UNCHANGED <<rt, em, vm, sorted_nodes, xgraph>>

\* graph.ToONNX(&xgraph2)
OToONNX ==
    /\ answer.call = "Graph"
    /\ ~answer.failed
    /\ answer' = [call |-> "ToONNX", xgraph |-> ToONNX(world, 1)]
    /\ UNCHANGED <<world, rt, em, vm, sorted_nodes, xgraph>>

\* Graph graph2(xgraph2): the second graph of the world
ORebuild ==
    /\ answer.call = "ToONNX"
    /\ \E c \in {GraphFromProto(world, answer.xgraph)} :
          /\ world' = IF c.failed THEN world ELSE c.W
          /\ answer' = [call |-> "Rebuild", failed |-> c.failed]
    /\ UNCHANGED <<rt, em, vm, sorted_nodes, xgraph>>

NextOnnx == OGraph \/ OToONNX \/ ORebuild

SpecOnnx == InitOnnx /\ [][NextOnnx]_vars

(***************************************************************************)
(* Properties of the emitted program and of its runs.                      *)
(***************************************************************************)
Emitted == em.phase = "done" /\ ~em.failed

Halted == vm.status = "halted"

\* the instruction the machine is about to run
Cur == em.prog[vm.pc + 1]

\* the positions of the trace at which the instruction of index pc ran
VisitsOf(pc) == {p \in DOMAIN vm.trace : vm.trace[p].pc = pc}

\* the positions of the trace from p on that stay within the instructions
\* lo..hi-1 without a break: the run of one activation entered at p
RECURSIVE StayUntil(_, _, _)
StayUntil(p, lo, hi) ==
    IF p > Len(vm.trace) \/ vm.trace[p].pc < lo \/ vm.trace[p].pc >= hi THEN p
    ELSE StayUntil(p + 1, lo, hi)

\* C1: on every path of the emitted program, nested If, Loop and
\* FusionGroup bodies included, no instruction reads a register that has
\* been released by Free and not been written since.
NoUseAfterFree ==
    (vm.status = "running" /\ Cur.op # "Free") =>
        \A r \in RegInputs(Cur) : vm.regs[r].st = "live"

\* an instruction inside a loop is about to read a register that was
\* released earlier in the run and has been written again
ReadsRecycledRegister ==
    /\ vm.status = "running"
    /\ Cur.op # "Free"
    /\ em.loop_sites # <<>>
    /\ \E r \in RegInputs(Cur) :
          /\ vm.regs[r].st = "live"
          /\ \E p \in DOMAIN vm.trace :
                LET i == em.prog[vm.trace[p].pc + 1]
                IN i.op = "Free" /\ i.inputs[1].v = r

\* the indices (1-based) of the Out instructions of the emitted program
OutIndices == {i \in DOMAIN em.prog : em.prog[i].op = "Out"}

\* C2: the program holds exactly one Out per value of the top-level
\* output_values, reading that value's register under that value's name,
\* and every Out comes after the last instruction emitted for a node:
\* only the releases of EmitOutputs and EmitStackQuit stand among or
\* behind the Outs.
OutputsAfterAllNodes ==
    Emitted =>
        LET outs == world.graphs[1].output_values
        IN /\ Cardinality(OutIndices) = Len(outs)
           /\ \A k \in DOMAIN outs :
                 Cardinality({i \in OutIndices :
                                 /\ em.prog[i].name = world.values[outs[k]].name
                                 /\ em.prog[i].inputs = <<R(em.value_ids[outs[k]])>>}) = 1
           /\ \A i \in OutIndices :
                 \A j \in DOMAIN em.prog :
                     (em.prog[j].op # "Out" /\ em.prog[j].line \notin {1086, 119}) => j < i

\* a program with two outputs, or one whose nodes are lowered into nested
\* bodies, has been emitted
OutputsEmitted ==
    /\ Emitted
    /\ OutIndices # {}
    /\ Len(world.graphs[1].output_values) = 2 \/ em.if_sites # <<>> \/ em.loop_sites # <<>>

\* the outer output registers of the If whose lowering x describes
IfOutputIds(x) ==
    {em.value_ids[v] : v \in {u \in Range(world.nodes[x.node].outputs) : ~IsNull(world, u)}}

\* one activation of the If of site x, entered at position p of the trace
\* with the condition cv: control goes to the first instruction of the
\* branch chosen by the condition, no instruction of the other branch
\* runs, and each outer output register is written exactly once
IfVisitOk(x, p) ==
    LET e == vm.trace[p]
        q == StayUntil(p + 1, x.branch_jmp + 1, x.done)
        seg == {vm.trace[i].pc : i \in (p + 1)..(q - 1)}
        else_body == (x.branch_jmp + 1)..(x.done_jmp - 1)
        then_body == (x.done_jmp + 1)..(x.done - 1)
    IN /\ e.cv # 0 => e.next = x.done_jmp + 1 /\ seg \subseteq then_body
       /\ e.cv = 0 => e.next = x.branch_jmp + 1 /\ seg \subseteq else_body \cup {x.done_jmp}
       /\ then_body # {} /\ else_body # {} => seg # {}
       /\ q > Len(vm.trace) \/ vm.trace[q].pc = x.done
       /\ \A r \in IfOutputIds(x) :
             Cardinality({i \in (p + 1)..(q - 1) :
                             r \in RegOutputs(em.prog[vm.trace[i].pc + 1])}) = 1

\* C3: each time an If runs, exactly one of its two branch bodies runs,
\* the then body exactly when the condition is true, and on either path
\* every outer output register of the If is written exactly once.
IfRunsOneBranch ==
    Halted =>
        \A k \in DOMAIN em.if_sites :
            \A p \in VisitsOf(em.if_sites[k].branch_jmp) : IfVisitOk(em.if_sites[k], p)

\* a finished run in which some If took its then branch and some If,
\* nested in another If or in a loop, took its else branch
IfRanBothWays ==
    /\ Halted
    /\ Len(em.if_sites) + Len(em.loop_sites) >= 2
    /\ \E k \in DOMAIN em.if_sites :
          \E p \in VisitsOf(em.if_sites[k].branch_jmp) : vm.trace[p].cv # 0
    /\ \E k \in DOMAIN em.if_sites :
          \E p \in VisitsOf(em.if_sites[k].branch_jmp) : vm.trace[p].cv = 0

\* the registers of the values of graph g
GraphRegs(g) ==
    {em.value_ids[v] : v \in Range(world.graphs[g].all_values) \cap DOMAIN em.value_ids}

\* the indices (1-based) of the instructions that read or write one of regs
TouchIndices(regs) ==
    {i \in DOMAIN em.prog :
        (RegInputs(em.prog[i]) \cup RegOutputs(em.prog[i])) \cap regs # {}}

SetMin(S) == CHOOSE m \in S : \A o \in S : m <= o
SetMax(S) == CHOOSE m \in S : \A o \in S : m >= o

\* C4: the target of the JmpTrue of an If is the index of the first
\* instruction of the then branch, which directly follows the Jmp, and the
\* target of the Jmp is one past the last instruction of the then branch;
\* neither is left at the placeholder -1, whether the else branch is empty
\* or holds a nested If.  The then branch is told by the registers of the
\* then graph's values, which only its instructions touch.
IfJumpsPatched ==
    Emitted =>
        \A k \in DOMAIN em.if_sites :
            LET x == em.if_sites[k]
                nd == world.nodes[x.node]
                body == TouchIndices(GraphRegs(nd.then_branch))
                jt == em.prog[x.branch_jmp + 1]
                j == em.prog[x.done_jmp + 1]
                tgt == jt.inputs[2].v
                fin == j.inputs[1].v
            IN /\ jt.op = "JmpTrue" /\ jt.node = x.node
               /\ j.op = "Jmp" /\ j.node = x.node
               /\ tgt # -1 /\ fin # -1
               /\ tgt = x.done_jmp + 1
               /\ body # {}
               /\ tgt + 1 = SetMin(body)
               /\ fin = SetMax(body)

\* an If with an empty else body and an If whose else branch holds another
\* If have been lowered
IfShapesEmitted ==
    /\ Emitted
    /\ \E k \in DOMAIN em.if_sites :
          world.graphs[world.nodes[em.if_sites[k].node].else_branch].nodes = <<>>
    /\ \E k, l \in DOMAIN em.if_sites :
          /\ k # l
          /\ em.if_sites[k].branch_jmp < em.if_sites[l].branch_jmp
          /\ em.if_sites[l].done_jmp < em.if_sites[k].done_jmp

\* the Loop node of site x, its trip count and its terminal condition
LoopNode(x) == world.nodes[x.node]
HasMax(x) == ~IsNull(world, LoopNode(x).inputs[1])
HasTerm(x) == ~IsNull(world, LoopNode(x).inputs[2])
RegVal(v) == vm.regs[em.value_ids[v]].val

\* the guard of the loop of site x is false on the registers as they are
GuardFalse(x) ==
    \/ HasMax(x) /\ RegVal(LoopNode(x).inputs[1]) <= 0
    \/ HasTerm(x) /\ RegVal(LoopNode(x).inputs[2]) = 0

\* C5: when the guard of a Loop is false at entry (the trip count is not
\* positive, or the initial terminal condition is false), the JmpFalse in
\* front of the loop goes to the first instruction after the back-edge
\* JmpTrue, and no instruction of the body or of the per-iteration
\* bookkeeping runs in that activation.
LoopSkippedWhenGuardFalse ==
    \A k \in DOMAIN em.loop_sites :
        LET x == em.loop_sites[k]
        IN /\ (vm.status = "running" /\ vm.pc = x.skip_loop_jmp /\ GuardFalse(x)) =>
                 /\ Cur.op = "JmpFalse"
                 /\ vm.regs[Cur.inputs[1].v].val = 0
                 /\ Exec(vm, em.prog, rt).pc = x.back_jmp + 1
                 /\ em.prog[x.back_jmp + 1].op = "JmpTrue"
                 /\ em.prog[x.back_jmp + 1].node = x.node
           /\ Halted =>
                 \A p \in VisitsOf(x.skip_loop_jmp) :
                     vm.trace[p].cv = 0 =>
                         \A i \in (p + 1)..(StayUntil(p + 1, x.first, x.last) - 1) :
                             vm.trace[i].pc \notin x.loop_begin..x.back_jmp

\* a finished run that went around a loop with a positive trip count
\* because its terminal condition was false at entry
LoopWasSkipped ==
    /\ Halted
    /\ "n" \in DOMAIN rt /\ rt["n"] > 0
    /\ \E k \in DOMAIN em.loop_sites :
          /\ HasMax(em.loop_sites[k]) /\ HasTerm(em.loop_sites[k])
          /\ \E p \in VisitsOf(em.loop_sites[k].skip_loop_jmp) : vm.trace[p].cv = 0

\* the positions of the trace at which an instruction of a node with
\* operator op_type ran
RunsOfOp(op_type) ==
    {p \in DOMAIN vm.trace :
        LET n == em.prog[vm.trace[p].pc + 1].node
        IN n # 0 /\ world.nodes[n].op_type = op_type /\ em.prog[vm.trace[p].pc + 1].op = op_type}

\* C6: the loop with trip count n, no terminal condition, one state s0 and
\* the body s' = s + 1 runs its body exactly n times and ends with the
\* output s0 + n, for every n >= 0.
CountingLoopCounts ==
    world = CountWorld =>
        /\ vm.status # "cut"
        /\ Len(vm.trace) <= Len(em.prog) * (rt["n"] + 1)
        /\ Halted =>
              /\ Emitted
              /\ vm.pc = Len(em.prog)
              /\ DOMAIN vm.outs = {"out"}
              /\ vm.outs["out"] = rt["s0"] + rt["n"]
              /\ Cardinality(RunsOfOp("Add")) = rt["n"]

\* the counting loop has finished a run of the largest trip count
CountingLoopRan ==
    /\ world = CountWorld
    /\ Halted
    /\ rt["n"] = MaxTrip
    /\ rt["s0"] = MaxVal

\* the iterations the current activation of the loop of site x has begun
IterationsBegun(x) ==
    LET entry == SetMax(VisitsOf(x.first))
    IN Cardinality({p \in DOMAIN vm.trace : p > entry /\ vm.trace[p].pc = x.loop_begin})

\* C7: the back-edge JmpTrue of a Loop is taken exactly when the trip
\* count exceeds the iteration counter, which has been incremented for the
\* iteration just done, and the body's condition output is true; the first
\* half is absent without a trip count, the second without a terminal
\* condition.
BackEdgeTakenIff ==
    \A k \in DOMAIN em.loop_sites :
        LET x == em.loop_sites[k]
            condo == world.graphs[LoopNode(x).body].output_values[1]
            more == HasMax(x) => RegVal(LoopNode(x).inputs[1]) > vm.regs[x.iter_id].val
            go == HasTerm(x) => RegVal(condo) # 0
        IN (vm.status = "running" /\ vm.pc = x.back_jmp) =>
              /\ Cur.op = "JmpTrue"
              /\ vm.regs[x.iter_id].val = IterationsBegun(x)
              /\ (Exec(vm, em.prog, rt).pc = x.loop_begin) <=> (more /\ go)
              /\ (Exec(vm, em.prog, rt).pc # x.loop_begin) => Exec(vm, em.prog, rt).pc = x.back_jmp + 1

\* a loop with both a trip count and a terminal condition stands at its
\* back edge with the trip count not exhausted and the condition false
BackEdgeStoppedByCondition ==
    \E k \in DOMAIN em.loop_sites :
        LET x == em.loop_sites[k]
        IN /\ vm.status = "running" /\ vm.pc = x.back_jmp
           /\ HasMax(x) /\ HasTerm(x)
           /\ RegVal(LoopNode(x).inputs[1]) > vm.regs[x.iter_id].val
           /\ RegVal(world.graphs[LoopNode(x).body].output_values[1]) = 0

\* the Loop nodes without trip count and without terminal condition whose
\* lowering has been started
InfiniteLoops ==
    {n \in DOMAIN world.nodes \cap em.emitted :
        /\ world.nodes[n].op_type = "Loop"
        /\ IsNull(world, world.nodes[n].inputs[1])
        /\ IsNull(world, world.nodes[n].inputs[2])}

\* C8: lowering a Loop whose trip count and terminal condition are both
\* null aborts the session, and no instruction of that loop is appended:
\* nothing follows what had been emitted, and the program is never run.
InfiniteLoopRejected ==
    InfiniteLoops # {} =>
        /\ em.failed
        /\ vm.status = "idle"
        /\ OutIndices = {}
        /\ \A i \in DOMAIN em.prog : em.prog[i].node \notin InfiniteLoops

\* a session has aborted on such a loop after it had emitted instructions
InfiniteLoopMet ==
    /\ em.phase = "done"
    /\ InfiniteLoops # {}
    /\ em.prog # <<>>

\* an instruction as the text of a program shows it
Shown(inst) == <<inst.op, inst.outputs, inst.inputs, inst.name>>

ShownProgram == [i \in DOMAIN em.prog |-> Shown(em.prog[i])]

\* C9 as stated: the graph of one Identity from the input x to the output
\* y is lowered to In x, Identity y <- x, Out y, Free x, Free y.
IdentityProgramAsStated ==
    (world = IdentityWorld /\ em.phase = "done") =>
        LET x == em.value_ids[1]
            y == em.value_ids[2]
        IN /\ ~em.failed
           /\ ShownProgram = << <<"In", <<x>>, <<>>, "x">>,
                                <<"Identity", <<y>>, <<R(x)>>, "">>,
                                <<"Out", <<>>, <<R(y)>>, "y">>,
                                <<"Free", <<>>, <<R(x)>>, "">>,
                                <<"Free", <<>>, <<R(y)>>, "">> >>

\* C9: the graph of one Identity from the input x to the output y is
\* lowered to exactly In x, Identity y <- x, Free x, Out y, Free y: the
\* driver releases x after its last use, before the outputs are handed out.
IdentityProgram ==
    (world = IdentityWorld /\ em.phase = "done") =>
        LET x == em.value_ids[1]
            y == em.value_ids[2]
        IN /\ ~em.failed
           /\ x # y
           /\ ShownProgram = << <<"In", <<x>>, <<>>, "x">>,
                                <<"Identity", <<y>>, <<R(x)>>, "">>,
                                <<"Free", <<>>, <<R(x)>>, "">>,
                                <<"Out", <<>>, <<R(y)>>, "y">>,
                                <<"Free", <<>>, <<R(y)>>, "">> >>

\* the Identity graph has been lowered and its program has been run
IdentityProgramRan ==
    /\ world = IdentityWorld
    /\ Halted
    /\ vm.outs = ("y" :> rt["x"])

(***************************************************************************)
(* Properties of the graph's traversals.                                   *)
(***************************************************************************)
\* the position of node n in the sequence q (0 when it is not there)
PositionIn(q, n) == IF n \in Range(q) THEN CHOOSE i \in DOMAIN q : q[i] = n ELSE 0

\* the producers of the non-null inputs of node n
InputProducers(W, n) ==
    {W.values[v].producer : v \in {u \in Range(W.nodes[n].inputs) : ~IsNull(W, u)}} \ {0}

\* C10: in the sequence GetTopologicallySortedNodes returns no node
\* appears twice, and every node stands behind the producer of each of
\* its non-null inputs wherever that producer is in the sequence.
SortedNodesInLegalOrder ==
    (sorted_nodes.done /\ ~sorted_nodes.failed) =>
        LET q == sorted_nodes.nodes
        IN /\ \A i, j \in DOMAIN q : i # j => q[i] # q[j]
           /\ \A i \in DOMAIN q :
                 \A p \in InputProducers(world, q[i]) :
                     p \in Range(q) => PositionIn(q, p) < i

\* every non-null input of a live node of graph g is a declared input of
\* the graph or an output of a live node
InputsAreDefined(W, g) ==
    \A n \in Range(GetLiveNodes(W, g)) :
        \A v \in Range(W.nodes[n].inputs) :
            \/ IsNull(W, v)
            \/ v \in Range(W.graphs[g].input_values)
            \/ \E m \in Range(GetLiveNodes(W, g)) : v \in Range(W.nodes[m].outputs)

\* C11: on a graph whose non-null inputs are all defined, the sequence
\* GetTopologicallySortedNodes returns holds every live node exactly once,
\* the nodes without non-null inputs included.
SortedNodesComplete ==
    (sorted_nodes.done /\ ~sorted_nodes.failed /\ InputsAreDefined(world, 1)) =>
        \A n \in Range(GetLiveNodes(world, 1)) : Count(sorted_nodes.nodes, n) = 1

\* the nodes of graph g that have been detached
DetachedNodes(W, g) == {n \in Range(W.graphs[g].nodes) : W.nodes[n].detached}

\* C12: a detached node is in no traversal's result: not in the live
\* nodes, not in the topological order, not among the necessary nodes and
\* not in the computation sequence.
DetachedNodesExcluded ==
    \A n \in DetachedNodes(world, 1) :
        /\ sorted_nodes.done => n \notin Range(sorted_nodes.nodes)
        /\ answer.call \in {"GetLiveNodes", "GetComputationSequence"} =>
               n \notin Range(answer.nodes)
        /\ answer.call = "GetNecessaryNodesAndInputCounts" =>
               n \notin DOMAIN answer.counts

\* C13: the producer of every value, where it has one, lists the value
\* among its outputs, and the users of every value are exactly the nodes
\* of the graph (the detached ones have left it) that read it, each as
\* many times as the value occurs among its inputs.
EdgesAreSymmetric ==
    \A v \in DOMAIN world.values :
        /\ \/ world.values[v].producer = 0
           \/ v \in Range(world.nodes[world.values[v].producer].outputs)
        /\ Range(world.values[v].users) \subseteq DOMAIN world.nodes
        /\ \A n \in DOMAIN world.nodes :
               Count(world.values[v].users, n) =
                   IF world.nodes[n].detached THEN 0 ELSE Count(world.nodes[n].inputs, v)

\* a node reading one value twice has been added, and a node has been detached
EdgesAddedAndRemoved ==
    /\ DetachedNodes(world, 1) # {}
    /\ \E n \in Range(GetLiveNodes(world, 1)) :
          /\ Len(world.nodes[n].inputs) = 2
          /\ world.nodes[n].inputs[1] = world.nodes[n].inputs[2]
          /\ Count(world.values[world.nodes[n].inputs[1]].users, n) = 2

(***************************************************************************)
(* Properties of a graph read from ONNX.                                   *)
(***************************************************************************)
\* the constructor has returned a graph for xgraph
Constructed == answer.call = "Graph" /\ ~answer.failed

\* C14: in a graph constructed from a GraphProto no two values of
\* all_values have the same name.
ValueNamesUnique ==
    Constructed =>
        LET all == world.graphs[1].all_values
        IN \A i, j \in DOMAIN all :
               i # j => world.values[all[i]].name # world.values[all[j]].name

\* q has no element twice
Distinct(q) == \A i, j \in DOMAIN q : i # j => q[i] # q[j]

\* the initializers of the proto each name a declared input with a name
InitializersNameInputs ==
    \A name \in Range(xgraph.initializer) : name \in Range(xgraph.input) /\ name # ""

\* the k-th declared output has the name of a declared input or of an
\* output declared before it
NameTaken(k) ==
    xgraph.output[k] \in Range(xgraph.input) \cup {xgraph.output[j] : j \in 1..(k - 1)}

\* the declared outputs whose names are taken, in the order of the proto
TakenOutputs == SelectSeq([k \in DOMAIN xgraph.output |-> k], NameTaken)

\* the first value of graph g with the given name
FirstNamed(W, g, name) ==
    LET all == W.graphs[g].all_values
    IN all[CHOOSE i \in DOMAIN all :
               /\ W.values[all[i]].name = name
               /\ \A j \in 1..(i - 1) : W.values[all[j]].name # name]

\* the claim as it was stated: an output named as a value_info entry, in
\* a proto with nothing else wrong, is accepted
OutputNamedInValueInfoAccepted ==
    (/\ answer.call = "Graph"
     /\ Distinct(xgraph.input) /\ Distinct(xgraph.value_info)
     /\ Range(xgraph.input) \cap Range(xgraph.value_info) = {}
     /\ InitializersNameInputs
     /\ Range(xgraph.output) \cap Range(xgraph.value_info) # {})
        => ~answer.failed

\* C15: an output whose name is also a value_info entry makes the
\* construction fail; an output whose name is that of a declared input or
\* of an earlier output is accepted where nothing else is wrong, and an
\* Identity node from the first value of that name to the output value
\* stands, in the order of the outputs, before every node of the proto.
OutputNamedAsDefinedValue ==
    answer.call = "Graph" =>
        /\ Range(xgraph.output) \cap Range(xgraph.value_info) # {} => answer.failed
        /\ (/\ Distinct(xgraph.input) /\ Distinct(xgraph.value_info)
            /\ Range(xgraph.value_info) \cap
                   (Range(xgraph.input) \cup Range(xgraph.output)) = {}
            /\ InitializersNameInputs) => ~answer.failed
        /\ ~answer.failed =>
               LET G == world.graphs[1]
               IN /\ Len(G.nodes) = Len(TakenOutputs) + Len(xgraph.node)
                  /\ \A i \in DOMAIN TakenOutputs :
                         LET nd == world.nodes[G.nodes[i]]
                             y == G.output_values[TakenOutputs[i]]
                         IN /\ nd.op_type = "Identity"
                            /\ nd.outputs = <<y>>
                            /\ nd.inputs = <<FirstNamed(world, 1, world.values[y].name)>>
                            /\ nd.inputs # nd.outputs
                            /\ world.values[y].kind \cap kOutput # {}
                  /\ \A i \in DOMAIN xgraph.node :
                         world.nodes[G.nodes[Len(TakenOutputs) + i]].op_type =
                             xgraph.node[i].op_type

\* a graph has been constructed from a proto with nodes whose output y
\* has the name of a declared input
IdentityInserted ==
    /\ Constructed
    /\ xgraph.node # <<>>
    /\ \E k \in DOMAIN xgraph.output :
          xgraph.output[k] = "y" /\ "y" \in Range(xgraph.input)

\* the place of value v in graph g: the list it is in and its position
\* there (a null value made for an absent slot is in no list)
ValueRef(W, g, v) ==
    LET G == W.graphs[g]
    IN IF v \in Range(G.input_values) THEN <<"input", PositionIn(G.input_values, v)>>
       ELSE IF v \in Range(G.output_values) THEN <<"output", PositionIn(G.output_values, v)>>
       ELSE IF v \in Range(G.temp_values) THEN <<"temp", PositionIn(G.temp_values, v)>>
       ELSE <<"null", 0>>

\* the place of node n in graph g (0 for no node)
NodeRef(W, g, n) == PositionIn(W.graphs[g].nodes, n)

\* what is compared of a value: name, kind, initializer and edges
ValueShape(W, g, v) ==
    [name |-> W.values[v].name,
     kind |-> W.values[v].kind,
     initializer |-> IF W.values[v].initializer = 0 THEN <<>>
                     ELSE <<W.tensors[W.values[v].initializer].name>>,
     producer |-> NodeRef(W, g, W.values[v].producer),
     users |-> [i \in DOMAIN W.values[v].users |-> NodeRef(W, g, W.values[v].users[i])]]

\* the structure of graph g: its values by list, its nodes in order
GraphShape(W, g) ==
    LET G == W.graphs[g]
        Shapes_(vs) == [i \in DOMAIN vs |-> ValueShape(W, g, vs[i])]
        Refs(vs) == [i \in DOMAIN vs |-> ValueRef(W, g, vs[i])]
    IN [inputs |-> Shapes_(G.input_values),
        outputs |-> Shapes_(G.output_values),
        temps |-> Shapes_(G.temp_values),
        others |-> {ValueShape(W, g, v) :
                       v \in Range(G.all_values) \
                           (Range(G.input_values) \cup Range(G.output_values)
                                \cup Range(G.temp_values))},
        nodes |-> [i \in DOMAIN G.nodes |->
                      [op_type |-> W.nodes[G.nodes[i]].op_type,
                       inputs |-> Refs(W.nodes[G.nodes[i]].inputs),
                       outputs |-> Refs(W.nodes[G.nodes[i]].outputs)]]]

\* C16: the graph rebuilt from ToONNX of a constructed graph is
\* constructed and has the structure of the first: the same values with
\* the same names, kinds, initializers, producers and users, and the same
\* nodes in the same order.
RoundTripPreservesGraph ==
    answer.call = "Rebuild" =>
        /\ ~answer.failed
        /\ GraphShape(world, 2) = GraphShape(world, 1)

\* the value that the name map of the constructor holds for a declared
\* name is the first declared: an input before an output before a
\* value_info; its kind is Input only for a named declared input
NamesAnInput(name) == name \in Range(xgraph.input) /\ name # ""

\* C17: construction fails when an initializer names no declared value
\* or a declared value whose kind is not Input; when it succeeds, the
\* values with an initializer are exactly the Input values named by an
\* initializer, each with the tensor of its own name.
InitializersAttachedToInputs ==
    answer.call = "Graph" =>
        /\ (\E name \in Range(xgraph.initializer) : ~NamesAnInput(name)) => answer.failed
        /\ ~answer.failed =>
               \A v \in Range(world.graphs[1].all_values) :
                   LET val == world.values[v]
                   IN /\ val.initializer # 0 <=>
                            (val.kind = kInput /\ val.name \in Range(xgraph.initializer))
                      /\ val.initializer # 0 =>
                            world.tensors[val.initializer].name = val.name

\* C17 witness: a graph is constructed from a proto with an initializer,
\* and a value other than the one it is attached to exists
InitializerAttached ==
    /\ Constructed
    /\ xgraph.initializer # <<>>
    /\ \E v, w \in Range(world.graphs[1].all_values) :
           world.values[v].initializer # 0 /\ world.values[w].initializer = 0

\* the instructions that define a register taken with next_value_id_++ for
\* the lowering's own use (in EmitLoopImpl lines 964, 972, 973, 979, 996,
\* 998, 1036; for MaxPool line 420), by the line of the instruction that
\* first writes it
ScratchLines == {421, 965, 974, 975, 981, 984, 997, 999, 1037}

\* the scratch registers of the program emitted so far (of the MaxPool
\* instruction the second output, the workspace)
ScratchIds(s) ==
    UNION {IF s.prog[i].line = 421 THEN {s.prog[i].outputs[2]} ELSE RegOutputs(s.prog[i]) :
              i \in {j \in DOMAIN s.prog : s.prog[j].line \in ScratchLines}}

\* the values of graph g in the order AssignValueIds(graph) visits them
AssignOrder(W, g) ==
    W.graphs[g].input_values \o W.graphs[g].temp_values \o W.graphs[g].output_values

\* C18: in a session that ran to its end, the values of the top-level
\* graph have the ids 1, 2, ... in the order inputs, temps, outputs; the
\* values of every graph that was given ids have consecutive increasing
\* ids in that order; no two values have the same id; and no scratch
\* register of a loop has the id of a value.
ValueIdsAreDistinct ==
    (em.phase = "done" /\ ~em.failed) =>
        /\ \A i \in DOMAIN AssignOrder(world, 1) :
               /\ AssignOrder(world, 1)[i] \in DOMAIN em.value_ids
               /\ em.value_ids[AssignOrder(world, 1)[i]] = i
        /\ \A g \in DOMAIN world.graphs :
               LET q == AssignOrder(world, g)
               IN (q # <<>> /\ q[1] \in DOMAIN em.value_ids) =>
                      \A i \in DOMAIN q :
                          /\ q[i] \in DOMAIN em.value_ids
                          /\ em.value_ids[q[i]] = em.value_ids[q[1]] + i - 1
        /\ \A v, w \in DOMAIN em.value_ids :
               v # w => em.value_ids[v] # em.value_ids[w]
        /\ ScratchIds(em) \cap {em.value_ids[v] : v \in DOMAIN em.value_ids} = {}
        /\ \A v \in DOMAIN em.value_ids :
               em.value_ids[v] >= 1 /\ em.value_ids[v] < em.next_value_id

\* C18 witness: a session ended that lowered an If and a Loop with scratch
\* registers, so that ids were handed out for three graphs at least
NestedIdsAssigned ==
    /\ em.phase = "done"
    /\ ~em.failed
    /\ em.if_sites # <<>>
    /\ em.loop_sites # <<>>
    /\ Cardinality(ScratchIds(em)) >= 2
    /\ Cardinality({g \in DOMAIN world.graphs :
                       AssignOrder(world, g)[1] \in DOMAIN em.value_ids}) >= 3

\* C19: no value whose kind contains Null has an id, after
\* AssignValueIds(graph) of EmitModel and its subgraphs and after
\* AssignValueIds(set) of Emit(nodes, fetches), and no id was consumed for
\* one: every id handed out is that of a named value or of a scratch
\* register.
NullValuesHaveNoId ==
    (em.phase \in {"done", "nodes"} /\ ~em.failed) =>
        /\ \A v \in DOMAIN em.value_ids : ~IsNull(world, v)
        /\ 1..(em.next_value_id - 1) =
               {em.value_ids[v] : v \in {u \in DOMAIN em.value_ids : ~IsNull(world, u)}}
                   \cup ScratchIds(em)

\* the live nodes of graph g with an empty output list
LiveSinks(W, g) == {n \in Range(GetLiveNodes(W, g)) : W.nodes[n].outputs = <<>>}

\* the live BackpropStackPush nodes of graph g
LivePushes(W, g) ==
    {n \in Range(GetLiveNodes(W, g)) : W.nodes[n].op_type = "OnikuxBackpropStackPush"}

\* the keys are closed under the producers of inputs, and every key is
\* mapped to its number of non-null inputs
NecessaryClosedAndCounted ==
    answer.call = "GetNecessaryNodesAndInputCounts" =>
        /\ \A v \in Range(world.graphs[1].output_values) :
               world.values[v].producer # 0 =>
                   world.values[v].producer \in DOMAIN answer.counts
        /\ LivePushes(world, 1) \subseteq DOMAIN answer.counts
        /\ \A n \in DOMAIN answer.counts :
               /\ answer.counts[n] = GetNumActualInputs(world, n)
               /\ \A v \in Range(world.nodes[n].inputs) :
                      world.values[v].producer # 0 =>
                          world.values[v].producer \in DOMAIN answer.counts

\* C20: the keys of GetNecessaryNodesAndInputCounts(outputs) include the
\* producers of the outputs, every sink of the graph and every
\* BackpropStackPush node, and every producer of an input of a key; each
\* key is mapped to its number of non-null inputs.
NecessaryNodesIncludeSinks ==
    answer.call = "GetNecessaryNodesAndInputCounts" =>
        /\ NecessaryClosedAndCounted
        /\ LiveSinks(world, 1) \subseteq DOMAIN answer.counts

RECURSIVE BackwardValues(_, _)
\* the least set of values that holds S and, with a value, the inputs of
\* its producer
BackwardValues(W, S) ==
    LET more == UNION {Range(W.nodes[W.values[v].producer].inputs) :
                          v \in {u \in S : W.values[u].producer # 0}}
    IN IF more \subseteq S THEN S ELSE BackwardValues(W, S \cup more)

\* the result holds the inputs of the producers met by the backward search
NecessaryValuesAreInputs ==
    answer.call = "GetNecessaryValues" =>
        answer.values =
            UNION {Range(world.nodes[world.values[v].producer].inputs) :
                      v \in {u \in BackwardValues(world, Range(answer.outputs)) :
                                 world.values[u].producer # 0}}

\* C21: GetNecessaryValues(outputs) returns the given outputs and every
\* value that is an input of a node reachable from them through producer
\* edges, and nothing else.
NecessaryValuesIncludeOutputs ==
    answer.call = "GetNecessaryValues" =>
        answer.values = BackwardValues(world, Range(answer.outputs))

\* the 1-based places in the program of the instructions emitted for node n
InstructionsOf(s, n) == {i \in DOMAIN s.prog : s.prog[i].node = n}

\* the number of times the nodes of the world read value v
ReadsOf(W, v) ==
    LET Sum(q) == ForEach(LAMBDA acc, x : acc + x, 0, q, 1)
    IN Sum([m \in DOMAIN W.nodes |-> Count(W.nodes[m].inputs, v)])

\* C22: a SequenceAppend(seq, x) node is lowered to two instructions, the
\* second a SequenceAppend to its output; the first is SequenceMove when
\* the node's one reading of seq is the only use of seq in the graph, and
\* SequenceCopy when seq is read twice or more, so the sequence is never
\* moved from under another reader.
SequenceAppendMovesSoleUse ==
    (em.phase = "done" /\ ~em.failed) =>
        \A n \in DOMAIN world.nodes :
            world.nodes[n].op_type = "OnikuxSequenceAppend" =>
                LET nd == world.nodes[n]
                    seq == nd.inputs[1]
                    out == em.value_ids[nd.outputs[1]]
                IN \E i \in DOMAIN em.prog :
                       /\ InstructionsOf(em, n) = {i, i + 1}
                       /\ em.prog[i].op = IF ReadsOf(world, seq) = 1
                                          THEN "SequenceMove" ELSE "SequenceCopy"
                       /\ em.prog[i].outputs = <<out>>
                       /\ em.prog[i].inputs = <<R(em.value_ids[seq])>>
                       /\ em.prog[i + 1].op = "SequenceAppend"
                       /\ em.prog[i + 1].inputs = <<R(out), R(em.value_ids[nd.inputs[2]])>>
                       /\ em.prog[i].op = "SequenceMove" =>
                              \A m \in DOMAIN world.nodes \ {n} :
                                  seq \notin Range(world.nodes[m].inputs)

\* C22 witness: a session ended that lowered a SequenceAppend with a move
SequenceMoved ==
    /\ em.phase = "done"
    /\ ~em.failed
    /\ \E i \in DOMAIN em.prog :
           /\ em.prog[i].op = "SequenceMove"
           /\ world.nodes[em.prog[i].node].op_type = "OnikuxSequenceAppend"

\* the registers the instructions before place i of the program name
RegistersBefore(s, i) ==
    UNION {RegInputs(s.prog[j]) \cup RegOutputs(s.prog[j]) : j \in 1..(i - 1)}

\* C23: a MaxPool node with one input and one output is lowered to the
\* MaxPool instruction, whose second output is a register that no value
\* has and no earlier instruction names, and the next instruction is the
\* Free of that register; with another number of outputs the lowering
\* succeeds exactly when there are three, the middle one Null and the
\* third not, and the third is the second output of the instruction.
MaxPoolWorkspace ==
    em.phase = "done" =>
        \A n \in DOMAIN world.nodes :
            world.nodes[n].op_type = "MaxPool" =>
                LET nd == world.nodes[n]
                    once == Len(nd.inputs) = 1 /\ Len(nd.outputs) = 1
                    thrice == /\ Len(nd.inputs) = 1
                              /\ Len(nd.outputs) = 3
                              /\ IsNull(world, nd.outputs[2])
                              /\ ~IsNull(world, nd.outputs[3])
                IN /\ em.failed <=> ~(once \/ thrice)
                   /\ ~em.failed =>
                          \E i \in DOMAIN em.prog :
                              LET inst == em.prog[i]
                              IN /\ InstructionsOf(em, n) = {i}
                                 /\ inst.op = "MaxPool"
                                 /\ Len(inst.outputs) = 2
                                 /\ inst.outputs[1] = em.value_ids[nd.outputs[1]]
                                 /\ inst.inputs[1] = R(em.value_ids[nd.inputs[1]])
                                 /\ thrice => inst.outputs[2] = em.value_ids[nd.outputs[3]]
                                 /\ once =>
                                        /\ \A v \in DOMAIN em.value_ids :
                                               em.value_ids[v] # inst.outputs[2]
                                        /\ inst.outputs[2] \notin RegistersBefore(em, i)
                                        /\ inst.outputs[2] >= 1
                                        /\ i + 1 \in DOMAIN em.prog
                                        /\ em.prog[i + 1].op = "Free"
                                        /\ em.prog[i + 1].inputs = <<R(inst.outputs[2])>>

\* C23 witness: a session ended that lowered a one-output MaxPool, its
\* workspace being freed by the instruction after it
MaxPoolWorkspaceFreed ==
    /\ em.phase = "done"
    /\ ~em.failed
    /\ \E i \in DOMAIN em.prog :
           /\ em.prog[i].op = "MaxPool"
           /\ Len(world.nodes[em.prog[i].node].outputs) = 1
           /\ em.prog[i + 1].op = "Free"
           /\ em.prog[i + 1].inputs = <<R(em.prog[i].outputs[2])>>

\* the output operands of the instruction inst are laid out as the claim
\* says for the BatchNormalization node n
BatchNormalizationLayout(inst, n) ==
    LET nd == world.nodes[n]
        last == nd.outputs[Len(nd.outputs)]
        opaque == world.values[last].type_kind = "Opaque"
        N == IF opaque THEN Len(nd.outputs) - 1 ELSE Len(nd.outputs)
        id(v) == em.value_ids[v]
    IN /\ inst.op = "BatchNormalization"
       /\ Len(inst.outputs) = 6
       /\ inst.outputs[1] = id(nd.outputs[1])
       /\ inst.outputs[2] = IF opaque THEN id(last) ELSE -1
       /\ \A k \in 1..(N - 1) : k + 2 <= 6 /\ inst.outputs[k + 2] = id(nd.outputs[k + 1])
       /\ \A k \in 3..6 : k > N + 1 => inst.outputs[k] = -1
       /\ \A v \in Range(nd.outputs) : id(v) \in Range(inst.outputs)

\* the layout holds for the nodes with at most five outputs besides an
\* opaque one
BatchNormalizationUpToFive ==
    (em.phase = "done" /\ ~em.failed) =>
        \A n \in DOMAIN world.nodes :
            (/\ world.nodes[n].op_type = "BatchNormalization"
             /\ Len(world.nodes[n].outputs) <=
                    (IF BatchNormalizationOuts(world, em, n)[2] = -1 THEN 5 ELSE 6)) =>
                \E i \in DOMAIN em.prog :
                    /\ InstructionsOf(em, n) = {i}
                    /\ BatchNormalizationLayout(em.prog[i], n)

\* C24: the BatchNormalization instruction has six output operands: the
\* first output of the node, the trailing output if it is Opaque and -1 if
\* not, the other outputs in order, and -1 in every slot left; every
\* output of the node is among them.
BatchNormalizationSixSlots ==
    (em.phase = "done" /\ ~em.failed) =>
        \A n \in DOMAIN world.nodes :
            world.nodes[n].op_type = "BatchNormalization" =>
                \E i \in DOMAIN em.prog :
                    /\ InstructionsOf(em, n) = {i}
                    /\ BatchNormalizationLayout(em.prog[i], n)

\* the shape operands of a FloatConstant or IntConstant instruction made
\* from the tensor value: they follow the data and precede the host flag
ShapeOperands(inst, value) ==
    [i \in DOMAIN value.dims |-> inst.inputs[Len(value.data) + i].v]

\* a dimension is accepted when it is not negative and fits in 32 bits;
\* an accepted dimension that does not fit a signed int wraps around
ConstantDimsChecked ==
    em.phase = "done" =>
        \A n \in DOMAIN world.nodes :
            world.nodes[n].op_type = "Constant" =>
                LET value == world.nodes[n].tensor_value
                IN /\ (\E i \in DOMAIN value.dims :
                           ~(NonNegative(value.dims[i]) /\ BelowTwoTo32(value.dims[i])))
                          => em.failed
                   /\ (~em.failed /\ value.dims # <<>>) =>
                          \E k \in DOMAIN em.prog :
                              /\ InstructionsOf(em, n) = {k}
                              /\ em.prog[k].op \in {"FloatConstant", "IntConstant"}
                              /\ \A i \in DOMAIN value.dims :
                                     ShapeOperands(em.prog[k], value)[i] =
                                         ToInt(value.dims[i])

\* C25: Constant lowering fails on a tensor with a dimension that is
\* negative or does not fit in 32 bits, and for every tensor it accepts
\* each shape operand of the FloatConstant or IntConstant instruction
\* equals the tensor's dimension.
ConstantShapeKept ==
    em.phase = "done" =>
        \A n \in DOMAIN world.nodes :
            world.nodes[n].op_type = "Constant" =>
                LET value == world.nodes[n].tensor_value
                IN /\ (\E i \in DOMAIN value.dims :
                           ~(NonNegative(value.dims[i]) /\ BelowTwoTo32(value.dims[i])))
                          => em.failed
                   /\ (~em.failed /\ value.dims # <<>>) =>
                          \E k \in DOMAIN em.prog :
                              /\ InstructionsOf(em, n) = {k}
                              /\ em.prog[k].op \in {"FloatConstant", "IntConstant"}
                              /\ \A i \in DOMAIN value.dims :
                                     FromInt(ShapeOperands(em.prog[k], value)[i]) =
                                         value.dims[i]

\* the indices of the In instructions of the program
InIndices == {i \in DOMAIN em.prog : em.prog[i].op = "In"}

\* the positions in the computation sequence of graph 1 whose node reads v
ScheduledReaders(v) ==
    LET nodes == GetComputationSequence(world, 1)
    IN {k \in DOMAIN nodes : v \in Range(world.nodes[nodes[k]].inputs)}

\* the inputs of graph 1 that at least one scheduled node reads
ScheduledInputs == {v \in Range(world.graphs[1].input_values) : ScheduledReaders(v) # {}}

\* C26: the program EmitModel emits has exactly one In for every input of
\* the top-level graph that a scheduled node reads, carrying the name and
\* the register of that input and standing before every instruction of
\* the first scheduled node that reads it, and it has no other In: none
\* for an input no scheduled node reads and none for the inputs of the
\* bodies of If, Loop and FusionGroup nodes.
InputsStagedOnce ==
    Emitted =>
        /\ Cardinality(InIndices) = Cardinality(ScheduledInputs)
        /\ \A v \in ScheduledInputs :
              LET nodes == GetComputationSequence(world, 1)
                  first == nodes[CHOOSE k \in ScheduledReaders(v) :
                                    \A m \in ScheduledReaders(v) : k <= m]
                  ins == {i \in InIndices :
                             /\ em.prog[i].outputs = <<em.value_ids[v]>>
                             /\ em.prog[i].name = world.values[v].name}
              IN /\ Cardinality(ins) = 1
                 /\ \A i \in ins : \A j \in InstructionsOf(em, first) : i < j

\* an emitted program whose graph has an input read by two scheduled nodes
\* or twice by one, or has a node with a body, and has an In
InputStagedForSeveralReaders ==
    /\ Emitted
    /\ InIndices # {}
    /\ \/ \E v \in ScheduledInputs : ReadsOf(world, v) >= 2
       \/ em.if_sites # <<>> \/ em.loop_sites # <<>>

\* the nodes lowered when node n is: n and the nodes of its bodies
RECURSIVE NodesUnder(_, _)
NodesUnder(W, n) ==
    LET nd == W.nodes[n]
        subs == {nd.then_branch, nd.else_branch, nd.body, nd.subgraph} \ {0}
    IN {n} \cup UNION {NodesUnder(W, m) : m \in UNION {Range(W.graphs[g].nodes) : g \in subs}}

\* the indices of the instructions emitted for node n and for its bodies
LoweredSpan(n) == {i \in DOMAIN em.prog : em.prog[i].node \in NodesUnder(world, n)}

\* the indices of the releases by which the driver drops value v
DriverFrees(v) ==
    {i \in DOMAIN em.prog : /\ em.prog[i].op = "Free"
                            /\ em.prog[i].line = 743
                            /\ em.prog[i].inputs = <<R(em.value_ids[v])>>}

\* the positions in the computation sequence of graph g whose node reads v
ReadersIn(g, v) ==
    LET nodes == GetComputationSequence(world, g)
    IN {k \in DOMAIN nodes : v \in Range(world.nodes[nodes[k]].inputs)}

\* value v of graph g is released once by the driver, behind the lowering
\* of its last scheduled reader with nothing but releases in between, and
\* behind the lowering of every scheduled reader
FreedAfterLastReader(g, v) ==
    LET nodes == GetComputationSequence(world, g)
        end == SetMax(LoweredSpan(nodes[SetMax(ReadersIn(g, v))]))
    IN /\ Cardinality(DriverFrees(v)) = 1
       /\ \A i \in DriverFrees(v) :
             /\ i > end
             /\ \A j \in (end + 1)..(i - 1) : em.prog[j].op = "Free"
             /\ \A k \in ReadersIn(g, v) : \A j \in LoweredSpan(nodes[k]) : j < i

\* C27: in a program EmitModel emitted, every temp value of a graph the
\* driver lowered, and every input of the top-level graph, that a
\* scheduled node of its graph reads is released by the driver exactly
\* once, directly behind the instructions of the last scheduled node
\* that reads it (only other releases stand in between) and behind the
\* instructions of every scheduled node that reads it, also when a node
\* lists it twice; and no users-remaining counter ends below zero (a
\* counter only goes down, so none was below zero before).
DeadInputsFreedAfterLastUser ==
    Emitted =>
        \A g \in DOMAIN em.users_left : \A v \in DOMAIN em.users_left[g] :
            /\ em.users_left[g][v] >= 0
            /\ ReadersIn(g, v) # {} => FreedAfterLastReader(g, v)

\* C28: on every path of a program EmitModel emitted, a Free never meets
\* a register that is in the released state, that is, one released before
\* and not written since: neither the driver's releases of unused
\* outputs and dead inputs, nor the releases of the inputs of a branch or
\* a body, nor the release half of a MOVE, nor those behind the Outs.
NoDoubleFree ==
    (vm.status = "running" /\ Cur.op = "Free") =>
        \A r \in RegInputs(Cur) : vm.regs[r].st # "free"

\* a Free is about to release a register that an earlier Free of the run
\* released and that has been written again since
FreesRecycledRegister ==
    /\ vm.status = "running"
    /\ Cur.op = "Free"
    /\ \E r \in RegInputs(Cur) :
          /\ vm.regs[r].st = "live"
          /\ \E p \in DOMAIN vm.trace :
                /\ em.prog[vm.trace[p].pc + 1].op = "Free"
                /\ r \in RegInputs(em.prog[vm.trace[p].pc + 1])

\* the registers written, and those released, by the instructions of the
\* 0-based indices lo to hi - 1
WrittenIn(lo, hi) == UNION {RegOutputs(em.prog[i + 1]) : i \in lo..(hi - 1)}
FreedIn(lo, hi) ==
    UNION {RegInputs(em.prog[i + 1]) :
              i \in {j \in lo..(hi - 1) : em.prog[j + 1].op = "Free"}}

\* the registers among regs that are live in the machine
Live(regs) == {r \in regs : vm.regs[r].st = "live"}

\* what the claim lists for the loop of site x: iter, cond, the guard, the
\* state inputs of the body and the scan sequences
LoopKeeps(x) ==
    LET body_in == world.graphs[LoopNode(x).body].input_values
    IN {x.iter_id, x.cond_id, x.skip_loop_cond_id}
       \cup {em.value_ids[body_in[i]] : i \in 3..Len(body_in)}
       \cup Range(x.scan_out_ids)

\* C29: whenever control stands at Lend of a Loop, skipped or left after
\* any number of iterations, the live registers among those the loop's
\* instructions before Lend write are iter, cond, the state inputs of the
\* body, the scan sequences and the guard register, and no others; and
\* whenever control stands at Ldone of an If, through either branch, the
\* live registers among those the two branches write are the outputs of
\* the If.  The instructions of a loop before Lend and of the branches of
\* an If release only registers they write, so the whole set of live
\* registers at Lend and at Ldone does not depend on the path taken.
LiveSetAtJoinIsPathIndependent ==
    (Emitted /\ vm.status # "idle") =>
        /\ \A k \in DOMAIN em.loop_sites :
              LET x == em.loop_sites[k]
              IN /\ FreedIn(x.first, x.lend) \subseteq WrittenIn(x.first, x.lend)
                 /\ vm.pc = x.lend => Live(WrittenIn(x.first, x.lend)) = LoopKeeps(x)
        /\ \A k \in DOMAIN em.if_sites :
              LET x == em.if_sites[k]
              IN /\ FreedIn(x.branch_jmp, x.done) \subseteq WrittenIn(x.branch_jmp, x.done)
                 /\ vm.pc = x.done =>
                        Live(WrittenIn(x.branch_jmp, x.done)) = IfOutputIds(x)

\* every node of the world is scheduled
AllScheduled == \A n \in DOMAIN world.nodes : world.nodes[n].onikux_order >= 0

\* the registers of the outputs of BatchNormalization nodes that the
\* driver leaves alone: temps that are not null and that nobody uses
BatchNormalizationLeftovers ==
    {em.value_ids[v] :
        v \in {u \in DOMAIN em.value_ids :
                  /\ IsTemp(world, u) /\ ~IsNull(world, u)
                  /\ world.values[u].users = <<>>
                  /\ \E n \in DOMAIN world.nodes :
                        /\ world.nodes[n].op_type = "BatchNormalization"
                        /\ u \in Range(world.nodes[n].outputs)}}

\* C30: when the program EmitModel emitted for a world in which every
\* node is scheduled has run to its end, no register is live any more
\* (each was never written or has been released) except registers of
\* unused temp outputs of BatchNormalization nodes.
AllRegistersFreedAtEnd ==
    (Emitted /\ Halted /\ AllScheduled) =>
        \A r \in DOMAIN vm.regs :
            vm.regs[r].st = "live" => r \in BatchNormalizationLeftovers

\* a program with an If or a Loop has run to its end, every node being
\* scheduled, and has released at least four registers
RanToEndAndFreed ==
    /\ Emitted /\ Halted /\ AllScheduled
    /\ em.if_sites # <<>> \/ em.loop_sites # <<>>
    /\ Cardinality({r \in DOMAIN vm.regs : vm.regs[r].st = "free"}) >= 4


====
